---- MODULE Spec2Model ----
(***************************************************************************)
(* Identity core of the Radar application: accounts and lockout            *)
(* (app/auth/models.py), login / password reset (app/auth/services.py),    *)
(* MFA (app/auth/mfa.py) and the HTTP handlers in front of them            *)
(* (app/auth/routes.py).                                                   *)
(*                                                                         *)
(* Time is counted in whole minutes since an arbitrary origin.  Nullable   *)
(* columns hold None (the empty tuple) or Some(x) (a one-element tuple).   *)
(* A row of the users table is a record; an ORM object loaded in a request *)
(* is a copy of its row, and db.session.commit() writes back the           *)
(* attributes the request modified (FlushRow).                             *)
(***************************************************************************)
EXTENDS Integers, Sequences, FiniteSets, TLC

VARIABLES
    users,          \* users table: user id -> row
    reset_tokens,   \* password_reset_tokens table, in insertion order
    now,            \* datetime.utcnow(), in minutes
    resp,           \* what the handler that ran last returned
    sess,           \* per worker: the request in flight and the ORM objects it loaded
    issued,         \* backup-code batches generated so far (secrets.token_hex is fresh)
    streak,         \* bookkeeping: per account, consecutive wrong-password logins
    accepted,       \* bookkeeping: how often each backup code was accepted
    redeemed,       \* bookkeeping: how often each reset token changed a password
    redis,          \* Redis: key -> [value, expires_at] (time-to-live as a deadline)
    clock,          \* time.time(), in seconds
    checks,         \* bookkeeping: rate-limit checks made per key and 60-second slice
    vault,          \* SecurityManager instances and the ciphertexts they produced
    dialect,        \* the database behind SQLALCHEMY_DATABASE_URI
    oauth           \* the OAuth code exchange in progress: requests sent, answers received

\* The stores beside the database, and the kind of database.
aux == <<redis, clock, checks, vault, dialect, oauth>>

vars == <<users, reset_tokens, now, resp, sess, issued, streak, accepted, redeemed, aux>>

---------------------------------------------------------------------------
(* Program constants *)

MAX_ATTEMPTS == 5
LOCK_MINUTES == 15
RESET_TOKEN_MINUTES == 60
MIN_PASSWORD_LENGTH == 12
BACKUP_CODE_COUNT == 10

(* Bounds of the model *)

MaxTime == 15           \* the clock of the login specification stops here
MaxResetTime == 61      \* the clock of the reset specification stops here
MaxTokens == 3          \* reset grants created in one behaviour
MaxBatches == 2         \* backup-code batches generated in one behaviour
MaxMfaTime == 1         \* the clock of the MFA specification stops here
MaxConcTokens == 1      \* reset grants created under concurrent requests
MaxConcCodes == 1       \* backup codes tried under concurrent requests
MaxTriedCode == 1       \* backup codes of a batch that requests try (1..MaxTriedCode)
MaxClock == 120         \* the clock of the fixed-window specification stops here (seconds)
MaxBucketClock == 132   \* the clock of the token-bucket specification stops here (seconds)
MaxManagers == 2        \* SecurityManager instances created
MaxVaultTokens == 2     \* Fernet tokens made or altered
MaxChecks == 6          \* rate-limit checks of one key in one 60-second slice
MaxGrants == 1          \* reset grants created while accounts are being created
MaxCacheClock == 90     \* the clock of the cache specification stops here (seconds)

---------------------------------------------------------------------------
(* Values *)

None == <<>>
Some(x) == <<x>>
Val(o) == o[1]

UserIds == {"u1", "u2"}
Workers == {"w1", "w2"}

\* Raw e-mail inputs; the second is a case/whitespace variant of the first.
EmailInputs == {"test@example.com", " Test@Example.COM ", "ghost@example.com"}

\* Passwords are described by what validate_password looks at.
Password(id, len, up, lo, dg, sp) ==
    [id |-> id, len |-> len, upper |-> up, lower |-> lo, digit |-> dg, special |-> sp]

PwTest == Password("TestPassword123!", 16, TRUE, TRUE, TRUE, TRUE)
PwNew == Password("NewPassword456!", 15, TRUE, TRUE, TRUE, TRUE)
PwWrong == Password("WrongPassword123!", 17, TRUE, TRUE, TRUE, TRUE)
PwWeak == Password("short1A!", 8, TRUE, TRUE, TRUE, TRUE)
PwNoDigit == Password("NoDigitPassword!", 16, TRUE, TRUE, FALSE, TRUE)
PwStrong == Password("Str0ngPass!word", 15, TRUE, TRUE, TRUE, TRUE)

LoginPasswords == {PwTest, PwWrong}
NewPasswords == {PwNew, PwWeak, PwNoDigit}

---------------------------------------------------------------------------
(* app/auth/models.py: class User *)

\* werkzeug's salted one-way hash: all that can be asked of a hash is whether
\* a given password produced it.
generate_password_hash(password) == [hash_of |-> password.id]

check_password_hash(pwhash, password) == pwhash.hash_of = password.id

\* A freshly constructed User(...): the column defaults of the table.
NewUser(id, email, password_hash, oauth_provider) ==
    [id |-> id,
     email |-> email,
     password_hash |-> password_hash,
     role |-> "CEO",
     mfa_secret |-> None,
     mfa_enabled |-> FALSE,
     backup_codes |-> None,
     oauth_provider |-> oauth_provider,
     oauth_id |-> None,
     is_active |-> TRUE,
     is_verified |-> FALSE,
     failed_login_attempts |-> 0,
     locked_until |-> None,
     last_login |-> None,
     password_changed_at |-> None]

set_password(u, password, t) ==
    [u EXCEPT !.password_hash = Some(generate_password_hash(password)),
              !.password_changed_at = Some(t)]

check_password(u, password) ==
    IF u.password_hash = None
    THEN FALSE
    ELSE check_password_hash(Val(u.password_hash), password)

is_locked(u, t) ==
    IF u.locked_until = None
    THEN FALSE
    ELSE t < Val(u.locked_until)

\* Variant of lock_account that leaves the counter as it is.
lock_account_keeps_counter(u, t) ==
    [u EXCEPT !.locked_until = Some(t + LOCK_MINUTES)]

lock_account(u, t) ==
    [u EXCEPT !.locked_until = Some(t + LOCK_MINUTES),
              !.failed_login_attempts = 0]

\* Variant of record_failed_login with the threshold test off by one: locks on the attempt after the last.
record_failed_login_late(u, t, max_attempts) ==
    LET v == [u EXCEPT !.failed_login_attempts = @ + 1]
    IN  IF v.failed_login_attempts > max_attempts
        THEN lock_account(v, t)
        ELSE v

\* Variant of record_failed_login that drops a lock that has run out.
record_failed_login_unlocking(u, t, max_attempts) ==
    LET v == [u EXCEPT !.failed_login_attempts = @ + 1, !.locked_until = None]
    IN  IF v.failed_login_attempts >= max_attempts
        THEN lock_account(v, t)
        ELSE v

record_failed_login(u, t, max_attempts) ==
    LET v == [u EXCEPT !.failed_login_attempts = @ + 1]
    IN  IF v.failed_login_attempts >= max_attempts
        THEN lock_account(v, t)
        ELSE v

record_successful_login(u, t) ==
    [u EXCEPT !.failed_login_attempts = 0,
              !.last_login = Some(t),
              !.locked_until = None]

\* db.session.commit() on a loaded object: the UPDATE sets the attributes whose
\* value differs from the loaded one, and those in `forced` (salted hashes and
\* the like, which never equal the loaded value); other columns keep whatever
\* the table holds now.
FlushRow(cur, loaded, obj, forced) ==
    [f \in DOMAIN cur |->
        IF f \in forced \/ obj[f] # loaded[f] THEN obj[f] ELSE cur[f]]

---------------------------------------------------------------------------
(* app/auth/services.py: AuthService *)

\* email.strip().lower()
NormalizeEmail(email) ==
    IF email = " Test@Example.COM " THEN "test@example.com"
    ELSE IF email = " New@Example.COM " THEN "new@example.com"
    ELSE email

\* User.query.filter_by(email=email).first()
UserByEmail(table, email) ==
    IF \E id \in DOMAIN table : table[id].email = email
    THEN Some(table[CHOOSE id \in DOMAIN table : table[id].email = email])
    ELSE None

\* User.query.filter_by(id=user_id).first()
get_user_by_id(table, user_id) ==
    IF user_id \in DOMAIN table THEN Some(table[user_id]) ELSE None

\* The result of authenticate_user for the object `found` that the query
\* returned: the tuple (user, success, message) and `obj`, the object as the
\* call leaves it (what its commits write).
AuthResult(user, success, message, obj) ==
    [user |-> user, success |-> success, message |-> message, obj |-> obj]

\* Variant of authenticate_user with the active check made before the lock check.
authenticate_user_active_first(found, password, t) ==
    IF found = None
    THEN AuthResult(None, FALSE, <<"Invalid email or password">>, None)
    ELSE LET user == Val(found) IN
         IF ~user.is_active
         THEN AuthResult(None, FALSE,
                  <<"Account is deactivated. Please contact support.">>, found)
         ELSE IF is_locked(user, t)
         THEN AuthResult(None, FALSE,
                  <<"Account is locked. Please try again in {} minutes.",
                    Val(user.locked_until) - t>>, found)
         ELSE IF ~check_password(user, password)
         THEN AuthResult(None, FALSE, <<"Invalid email or password">>,
                  Some(record_failed_login(user, t, MAX_ATTEMPTS)))
         ELSE LET v == record_successful_login(user, t) IN
              AuthResult(Some(v), TRUE, <<"Authentication successful">>, Some(v))

\* Variant of authenticate_user that counts a wrong password against a
\* locked account too.
authenticate_user_counting_locked(found, password, t) ==
    IF found = None
    THEN AuthResult(None, FALSE, <<"Invalid email or password">>, None)
    ELSE LET user == Val(found) IN
         IF is_locked(user, t)
         THEN AuthResult(None, FALSE,
                  <<"Account is locked. Please try again in {} minutes.",
                    Val(user.locked_until) - t>>,
                  IF check_password(user, password)
                  THEN found
                  ELSE Some(record_failed_login(user, t, MAX_ATTEMPTS)))
         ELSE IF ~user.is_active
         THEN AuthResult(None, FALSE,
                  <<"Account is deactivated. Please contact support.">>, found)
         ELSE IF ~check_password(user, password)
         THEN AuthResult(None, FALSE, <<"Invalid email or password">>,
                  Some(record_failed_login(user, t, MAX_ATTEMPTS)))
         ELSE LET v == record_successful_login(user, t) IN
              AuthResult(Some(v), TRUE, <<"Authentication successful">>, Some(v))

\* Variant of authenticate_user that names the factor that failed.
authenticate_user_telling(found, password, t) ==
    IF found = None
    THEN AuthResult(None, FALSE, <<"No account with this email">>, None)
    ELSE LET user == Val(found) IN
         IF is_locked(user, t)
         THEN AuthResult(None, FALSE,
                  <<"Account is locked. Please try again in {} minutes.",
                    Val(user.locked_until) - t>>, found)
         ELSE IF ~user.is_active
         THEN AuthResult(None, FALSE,
                  <<"Account is deactivated. Please contact support.">>, found)
         ELSE IF ~check_password(user, password)
         THEN AuthResult(None, FALSE, <<"Incorrect password">>,
                  Some(record_failed_login(user, t, MAX_ATTEMPTS)))
         ELSE LET v == record_successful_login(user, t) IN
              AuthResult(Some(v), TRUE, <<"Authentication successful">>, Some(v))

authenticate_user(found, password, t) ==
    IF found = None
    THEN AuthResult(None, FALSE, <<"Invalid email or password">>, None)
    ELSE LET user == Val(found) IN
         IF is_locked(user, t)
         THEN AuthResult(None, FALSE,
                  <<"Account is locked. Please try again in {} minutes.",
                    Val(user.locked_until) - t>>, found)
         ELSE IF ~user.is_active
         THEN AuthResult(None, FALSE,
                  <<"Account is deactivated. Please contact support.">>, found)
         ELSE IF ~check_password(user, password)
         THEN AuthResult(None, FALSE, <<"Invalid email or password">>,
                  Some(record_failed_login(user, t, MAX_ATTEMPTS)))
         ELSE LET v == record_successful_login(user, t) IN
              AuthResult(Some(v), TRUE, <<"Authentication successful">>, Some(v))

Claims(u, kind) ==
    [type |-> kind, sub |-> u.id, role |-> u.role, email |-> u.email,
     mfa_enabled |-> u.mfa_enabled]

generate_jwt_tokens(u) ==
    [access_token |-> Claims(u, "access"), refresh_token |-> Claims(u, "refresh")]

\* app/utils/validators.py: validate_password.  None when the password
\* passes, else the ValidationError raised.  (The common-password test that
\* follows these can never fire: every listed password is shorter than the
\* minimum length.)
Raise(kind, message) == Some([kind |-> kind, message |-> message])

validate_password(password, min_length) ==
    IF password.len < min_length
    THEN Raise("ValidationError", <<"Password must be at least {} characters long", min_length>>)
    ELSE IF ~password.upper
    THEN Raise("ValidationError", <<"Password must contain at least one uppercase letter">>)
    ELSE IF ~password.lower
    THEN Raise("ValidationError", <<"Password must contain at least one lowercase letter">>)
    ELSE IF ~password.digit
    THEN Raise("ValidationError", <<"Password must contain at least one digit">>)
    ELSE IF ~password.special
    THEN Raise("ValidationError", <<"Password must contain at least one special character">>)
    ELSE None

\* ValidationError derives from Exception, not from ValueError: of the two
\* handlers `except ValueError` / `except Exception`, this says which one an
\* exception of the given kind reaches.
CaughtAsValueError(kind) == kind = "ValueError"

\* PasswordResetToken(user_id=..., token=..., expires_at=...)
NewResetToken(id, user_id, token, expires_at) ==
    [id |-> id, user_id |-> user_id, token |-> token,
     expires_at |-> expires_at, used |-> FALSE]

\* Variant of is_valid that does not look at the expiry.
is_valid_ignoring_expiry(grant, t) == ~grant.used

\* PasswordResetToken.is_valid
is_valid(grant, t) ==
    IF grant.used
    THEN FALSE
    ELSE IF t > grant.expires_at
    THEN FALSE
    ELSE TRUE

\* PasswordResetToken.mark_as_used
mark_as_used(grant) == [grant EXCEPT !.used = TRUE]

\* Variant of InvalidateTokens that leaves earlier grants as they are.
InvalidateTokens_none(table, user_id) == table

\* PasswordResetToken.query.filter_by(user_id=..., used=False).update({'used': True})
InvalidateTokens(table, user_id) ==
    [i \in 1..Len(table) |->
        IF table[i].user_id = user_id /\ ~table[i].used
        THEN [table[i] EXCEPT !.used = TRUE]
        ELSE table[i]]

\* PasswordResetToken.query.filter_by(token=token, used=False).first()
UnusedTokenByValue(table, token) ==
    IF \E i \in 1..Len(table) : table[i].token = token /\ ~table[i].used
    THEN Some(table[CHOOSE i \in 1..Len(table) : table[i].token = token /\ ~table[i].used])
    ELSE None

\* create_password_reset_token for the object `found` that the lookup by
\* e-mail returned; `token` is the fresh value of secrets.token_urlsafe(32).
\* Yields (reset_token, success, message) and the token table it commits.
create_password_reset_token(table, found, token, t) ==
    IF found = None
    THEN [reset_token |-> None, success |-> TRUE,
          message |-> <<"If an account exists with this email, a password reset link has been sent">>,
          table |-> table]
    ELSE LET reset_token == NewResetToken(Len(table) + 1, Val(found).id, token,
                                          t + RESET_TOKEN_MINUTES)
         IN  [reset_token |-> Some(reset_token), success |-> TRUE,
              message |-> <<"Password reset token created">>,
              table |-> Append(InvalidateTokens(table, Val(found).id), reset_token)]

\* reset_password for the row `grant` that the query for the unused token
\* returned and the row `owner` of its user (read only when the grant is
\* valid).  Yields (success, message), the grant and the user as the call
\* leaves them (None: untouched).
ResetResult(success, message, grant, user) ==
    [success |-> success, message |-> message, grant |-> grant, user |-> user]

\* Variant of reset_password that looks the token up first and spends it on
\* a password the policy refuses.
reset_password_consuming(grant, owner, new_password, t) ==
    LET error == validate_password(new_password, MIN_PASSWORD_LENGTH) IN
    IF grant = None
    THEN ResetResult(FALSE, <<"Invalid or expired reset token">>, None, None)
    ELSE IF ~is_valid(Val(grant), t)
    THEN ResetResult(FALSE, <<"Invalid or expired reset token">>,
                     Some(mark_as_used(Val(grant))), None)
    ELSE IF error # None
    THEN ResetResult(FALSE, <<"An error occurred while resetting password">>,
                     Some(mark_as_used(Val(grant))), None)
    ELSE ResetResult(TRUE, <<"Password reset successful">>,
                     Some(mark_as_used(Val(grant))),
                     Some(set_password(owner, new_password, t)))

reset_password(grant, owner, new_password, t) ==
    LET error == validate_password(new_password, MIN_PASSWORD_LENGTH) IN
    IF error # None
    THEN IF CaughtAsValueError(Val(error).kind)
         THEN ResetResult(FALSE, Val(error).message, None, None)
         ELSE ResetResult(FALSE, <<"An error occurred while resetting password">>, None, None)
    ELSE IF grant = None
    THEN ResetResult(FALSE, <<"Invalid or expired reset token">>, None, None)
    ELSE IF ~is_valid(Val(grant), t)
    THEN ResetResult(FALSE, <<"Invalid or expired reset token">>,
                     Some(mark_as_used(Val(grant))), None)
    ELSE ResetResult(TRUE, <<"Password reset successful">>,
                     Some(mark_as_used(Val(grant))),
                     Some(set_password(owner, new_password, t)))

\* (success, message) and the object as the call leaves it (None: untouched).
ChangeResult(success, message, obj) ==
    [success |-> success, message |-> message, obj |-> obj]

\* Variant of change_password that does not ask for the current password.
change_password_unverified(user, current_password, new_password, t) ==
    LET error == validate_password(new_password, MIN_PASSWORD_LENGTH) IN
    IF error # None
    THEN ChangeResult(FALSE, <<"An error occurred while changing password">>, None)
    ELSE ChangeResult(TRUE, <<"Password changed successfully">>,
                      Some(set_password(user, new_password, t)))

change_password(user, current_password, new_password, t) ==
    LET error == validate_password(new_password, MIN_PASSWORD_LENGTH) IN
    IF error # None
    THEN IF CaughtAsValueError(Val(error).kind)
         THEN ChangeResult(FALSE, Val(error).message, None)
         ELSE ChangeResult(FALSE, <<"An error occurred while changing password">>, None)
    ELSE IF ~check_password(user, current_password)
    THEN ChangeResult(FALSE, <<"Current password is incorrect">>, None)
    ELSE ChangeResult(TRUE, <<"Password changed successfully">>,
                      Some(set_password(user, new_password, t)))

\* app/utils/validators.py: validate_role.  None when the role passes.
validate_role(role) ==
    IF role \notin {"CEO", "CFO", "Admin"}
    THEN Raise("ValidationError", <<"Invalid role: {}. Must be one of {}", role>>)
    ELSE None

\* The regular expression both validate_email functions use.
MatchesEmailPattern(email) ==
    email \in {"test@example.com", "new@example.com", "ghost@example.com", "sso@example.com",
               "alice@example.com"}

\* app/utils/security.py: validate_email, the one services.py imports.  It
\* returns whether the address is well formed, not the address.
validate_email(email) == email # "" /\ MatchesEmailPattern(email)

\* What a VARCHAR column makes of a bound Python bool on SQLite: the text of
\* the integer.
BoolAsText(b) == IF b THEN "1" ELSE "0"

\* UserRole[role.upper()], as the value the enum member has.
UserRoleByName(role) == role

RegisterResult(user, success, message) ==
    [user |-> user, success |-> success, message |-> message]

\* What register_user returns when an exception of the given kind is raised
\* inside its try block.
RegisterRaised(error) ==
    IF CaughtAsValueError(error.kind)
    THEN RegisterResult(None, FALSE, error.message)
    ELSE RegisterResult(None, FALSE, <<"An error occurred during registration">>)

\* register_user; new_id is the uuid4 the new row gets, d the database.  The
\* local `email` is rebound to the bool validate_email returns and used as
\* the address from then on: PostgreSQL refuses to compare the column with a
\* boolean (the query raises), SQLite compares and stores its text.
register_user(table, email_in, password, role, new_id, d, t) ==
    LET email == validate_email(NormalizeEmail(email_in))
        password_error == validate_password(password, MIN_PASSWORD_LENGTH)
        role_error == validate_role(role)
    IN  IF password_error # None
        THEN RegisterRaised(Val(password_error))
        ELSE IF role_error # None
        THEN RegisterRaised(Val(role_error))
        ELSE IF d = "postgresql"
        THEN RegisterRaised([kind |-> "ProgrammingError",
                             message |-> <<"operator does not exist: character varying = boolean">>])
        ELSE IF UserByEmail(table, BoolAsText(email)) # None
        THEN RegisterResult(None, FALSE, <<"User with this email already exists">>)
        ELSE RegisterResult(
                 Some(set_password([NewUser(new_id, BoolAsText(email), None, None)
                                       EXCEPT !.role = UserRoleByName(role),
                                              !.is_verified = FALSE],
                                   password, t)),
                 TRUE, <<"User registered successfully">>)

---------------------------------------------------------------------------
(* app/utils/rate_limiting.py: RateLimiter over Redis *)

\* The arguments the limiter is called with: max_requests and window_seconds.
Limit == 5
WindowSeconds == 60

LimitKeys == {"ip:10.0.0.1"}

Min(a, b) == IF a <= b THEN a ELSE b
Max(a, b) == IF a >= b THEN a ELSE b

\* A key is there until its time-to-live has run out, or for good when it
\* was stored without one (the entry then carries the field `persistent`).
RedisLive(store, key, t) ==
    /\ key \in DOMAIN store
    /\ ("persistent" \in DOMAIN store[key] \/ t < store[key].expires_at)

\* redis.get(key)
RedisGet(store, key, t) == IF RedisLive(store, key, t) THEN Some(store[key].value) ELSE None

\* redis.setex(key, ttl, value)
RedisSetex(store, key, ttl, value, t) ==
    [k \in DOMAIN store \cup {key} |->
        IF k = key THEN [value |-> value, expires_at |-> t + ttl] ELSE store[k]]

\* redis.set(key, value): no time-to-live.
RedisSet(store, key, value) ==
    [k \in DOMAIN store \cup {key} |->
        IF k = key THEN [value |-> value, expires_at |-> 0, persistent |-> TRUE]
        ELSE store[k]]

\* The pipeline incr(key); expire(key, ttl), executed as one transaction.
RedisIncrExpire(store, key, ttl, t) ==
    RedisSetex(store, key, ttl,
               IF RedisLive(store, key, t) THEN store[key].value + 1 ELSE 1, t)

LimitResult(allowed, remaining, reset_time, store) ==
    [allowed |-> allowed, remaining |-> remaining, reset_time |-> reset_time,
     store |-> store]

FixedKey(key) == <<"ratelimit:fixed", key>>
BucketKey(key) == <<"ratelimit:bucket", key>>

\* _fixed_window, from the count that redis.get returned (None: no key).
fixed_window_decide(store, key, got, max_requests, window_seconds, t) ==
    LET redis_key == FixedKey(key)
        window_start == t - (t % window_seconds)
        count == IF got = None THEN 0 ELSE Val(got)
    IN  IF count >= max_requests
        THEN LimitResult(FALSE, 0, window_start + window_seconds, store)
        ELSE LimitResult(TRUE, Max(0, max_requests - count - 1),
                         window_start + window_seconds,
                         RedisIncrExpire(store, redis_key, window_seconds, t))

\* RateLimiter._fixed_window, run without interruption.
fixed_window(store, key, max_requests, window_seconds, t) ==
    fixed_window_decide(store, key, RedisGet(store, FixedKey(key), t),
                        max_requests, window_seconds, t)

\* Variant of token_bucket that does not cap the refilled count.
token_bucket_uncapped(store, key, max_tokens, refill_seconds, t) ==
    LET redis_key == BucketKey(key)
        bucket_data == RedisGet(store, redis_key, t)
        tokens0 == IF bucket_data # None THEN Val(bucket_data).tokens
                   ELSE max_tokens * refill_seconds
        last_refill == IF bucket_data # None THEN Val(bucket_data).last_refill ELSE t
        tokens == tokens0 + (t - last_refill) * max_tokens
    IN  IF tokens < refill_seconds
        THEN LimitResult(FALSE, 0, t + ((refill_seconds - tokens) \div max_tokens), store)
        ELSE LimitResult(TRUE, (tokens - refill_seconds) \div refill_seconds,
                         t + ((max_tokens * refill_seconds - (tokens - refill_seconds))
                                  \div max_tokens),
                         RedisSetex(store, redis_key, refill_seconds * 2,
                                    [tokens |-> tokens - refill_seconds, last_refill |-> t], t))

\* Variant of token_bucket whose state expires after half the refill period.
token_bucket_short_lived(store, key, max_tokens, refill_seconds, t) ==
    LET redis_key == BucketKey(key)
        bucket_data == RedisGet(store, redis_key, t)
        tokens0 == IF bucket_data # None THEN Val(bucket_data).tokens
                   ELSE max_tokens * refill_seconds
        last_refill == IF bucket_data # None THEN Val(bucket_data).last_refill ELSE t
        tokens_to_add == (t - last_refill) * max_tokens
        tokens == Min(max_tokens * refill_seconds, tokens0 + tokens_to_add)
    IN  IF tokens < refill_seconds
        THEN LimitResult(FALSE, 0, t + ((refill_seconds - tokens) \div max_tokens), store)
        ELSE LimitResult(TRUE, (tokens - refill_seconds) \div refill_seconds,
                         t + ((max_tokens * refill_seconds - (tokens - refill_seconds))
                                  \div max_tokens),
                         RedisSetex(store, redis_key, refill_seconds \div 2,
                                    [tokens |-> tokens - refill_seconds, last_refill |-> t], t))

\* RateLimiter._token_bucket.  Token counts are kept in units of
\* 1/refill_seconds of a token, so that the refill of a whole number of
\* seconds is a whole number: one token is refill_seconds units, the refill
\* rate max_tokens units a second.
token_bucket(store, key, max_tokens, refill_seconds, t) ==
    LET redis_key == BucketKey(key)
        bucket_data == RedisGet(store, redis_key, t)
        tokens0 == IF bucket_data # None THEN Val(bucket_data).tokens
                   ELSE max_tokens * refill_seconds
        last_refill == IF bucket_data # None THEN Val(bucket_data).last_refill ELSE t
        tokens_to_add == (t - last_refill) * max_tokens
        tokens == Min(max_tokens * refill_seconds, tokens0 + tokens_to_add)
    IN  IF tokens < refill_seconds
        THEN LimitResult(FALSE, 0, t + ((refill_seconds - tokens) \div max_tokens), store)
        ELSE LimitResult(TRUE, (tokens - refill_seconds) \div refill_seconds,
                         t + ((max_tokens * refill_seconds - (tokens - refill_seconds))
                                  \div max_tokens),
                         RedisSetex(store, redis_key, refill_seconds * 2,
                                    [tokens |-> tokens - refill_seconds, last_refill |-> t], t))

\* RateLimiter.check_rate_limit
check_rate_limit(store, key, max_requests, window_seconds, algorithm, t) ==
    IF algorithm = "fixed_window"
    THEN fixed_window(store, key, max_requests, window_seconds, t)
    ELSE token_bucket(store, key, max_requests, window_seconds, t)

---------------------------------------------------------------------------
(* app/utils/caching.py: CacheManager over Redis *)

\* Python values a computation may return, by type and content.
PyValue(type, repr) == [type |-> type, repr |-> repr]

PyNone == PyValue("NoneType", "None")

\* json.dumps(value, default=str): None becomes null, a tuple an array, and
\* an object JSON has no form for (a datetime) the string str() makes of it.
json_dumps(value) ==
    [json |-> IF value.type = "NoneType" THEN "null"
              ELSE IF value.type \in {"tuple", "list"} THEN "array"
              ELSE IF value.type = "dict" THEN "object"
              ELSE IF value.type = "int" THEN "number"
              ELSE "string",
     text |-> value.repr]

\* json.loads(serialized)
json_loads(serialized) ==
    IF serialized.json = "null" THEN PyNone
    ELSE PyValue(IF serialized.json = "array" THEN "list"
                 ELSE IF serialized.json = "object" THEN "dict"
                 ELSE IF serialized.json = "number" THEN "int"
                 ELSE "str",
                 serialized.text)

\* CacheManager.get(key, default)
get(store, key, default, t) ==
    LET cached == RedisGet(store, key, t) IN
    IF cached = None THEN default ELSE json_loads(Val(cached))

\* CacheManager.set(key, value, ttl) with use_json=True: the store it leaves.
\* ttl is None or Some(seconds); `if ttl:` is false for both None and 0.
set(store, key, value, ttl, t) ==
    LET serialized == json_dumps(value) IN
    IF ttl # None /\ Val(ttl) # 0
    THEN RedisSetex(store, key, Val(ttl), serialized, t)
    ELSE RedisSet(store, key, serialized)

\* CacheManager.get_or_set(key, callable_func, ttl); computed is what
\* callable_func() returns when it is called.  Yields the value returned,
\* whether callable_func was called, and the store.
get_or_set(store, key, computed, ttl, t) ==
    LET cached == get(store, key, PyNone, t) IN
    IF cached # PyNone
    THEN [value |-> cached, called |-> FALSE, store |-> store]
    ELSE [value |-> computed, called |-> TRUE,
          store |-> set(store, key, computed, ttl, t)]

---------------------------------------------------------------------------
(* app/utils/security.py: SecurityManager, with the process-wide key *)

SecurityKey == "key-1"

\* Values given as encryption_key: nothing, a well-formed Fernet key, or a
\* seed that is not one.
FernetKeys == {"key-1", "key-2"}
EncryptionKeys == {None, Some("key-1"), Some("key-2"), Some("radar-dev-seed")}

\* _derive_key: PBKDF2-HMAC-SHA256 of the seed with the fixed salt.
derive_key(password) == [made_by |-> "pbkdf2:radar_salt_v1", from |-> password, n |-> 0]

\* SecurityManager.__init__: the key of the n-th instance created.
\* Fernet.generate_key() yields a key no other instance has.
SecurityManager(encryption_key, n) ==
    IF encryption_key # None
    THEN IF Val(encryption_key) \in FernetKeys
         THEN [made_by |-> "given", from |-> Val(encryption_key), n |-> 0]
         ELSE derive_key(Val(encryption_key))
    ELSE [made_by |-> "generate_key", from |-> "", n |-> n]

\* Fernet tokens: the ciphertext of the data with a MAC under the key.  A
\* token altered after it was made carries the field `altered` and a MAC
\* that no longer fits.
manager_encrypt(key, data) == [ciphertext_of |-> data, key |-> key]

Authentic(token, key) == "altered" \notin DOMAIN token /\ token.key = key

\* Variant of manager_decrypt that does not verify the token.
manager_decrypt_unverified(key, token) == Some(token.ciphertext_of)

\* SecurityManager.decrypt of an instance with the given key; None stands
\* for the ValueError("Decryption failed") the method raises.
manager_decrypt(key, token) ==
    IF Authentic(token, key) THEN Some(token.ciphertext_of) ELSE None

\* encrypt and decrypt of the process-wide instance (get_security_manager()).
encrypt(data) == manager_encrypt(SecurityKey, data)

decrypt(blob) == manager_decrypt(SecurityKey, blob)

---------------------------------------------------------------------------
(* app/auth/mfa.py: MFAService *)

Secrets == {"SEED-A", "SEED-B"}

\* Codes a caller can submit: the 6-digit TOTP code of a secret for a 30-second
\* step, or an 8-character backup code (the idx-th code of a generated batch;
\* batch 0 was never generated).
TotpCode(secret, step) ==
    [kind |-> "totp", secret |-> secret, step |-> step, batch |-> 0, idx |-> 0]

BackupCode(batch, idx) ==
    [kind |-> "backup", secret |-> "", step |-> 0, batch |-> batch, idx |-> idx]

\* pyotp's timecode: int(time.time() / 30), the clock being in minutes.
TimeStep(t) == (t * 60) \div 30

\* Variant of totp_verify that accepts the code of the current step only.
totp_verify_current_step(secret, code, t) ==
    /\ code.kind = "totp"
    /\ code.secret = secret
    /\ code.step = TimeStep(t)

\* pyotp.TOTP(secret).verify(code, valid_window=1)
totp_verify(secret, code, t) ==
    /\ code.kind = "totp"
    /\ code.secret = secret
    /\ \E i \in -1..1 : code.step = TimeStep(t) + i

\* hashlib.sha256(code.encode()).hexdigest()
sha256(code) == [sha256_of |-> code]

\* secrets.token_hex(4).upper(), count times: the codes of batch number `batch`.
generate_backup_codes(batch, count) == [i \in 1..count |-> BackupCode(batch, i)]

HashAll(codes) == [i \in 1..Len(codes) |-> sha256(codes[i])]

InSeq(x, seq) == \E i \in 1..Len(seq) : seq[i] = x

\* Variant of ListRemove that removes nothing.
ListRemove_nothing(seq, x) == seq

\* list.remove(x): drops the first occurrence.
ListRemove(seq, x) ==
    LET i == CHOOSE k \in 1..Len(seq) :
                 seq[k] = x /\ \A j \in 1..(k - 1) : seq[j] # x
    IN  SubSeq(seq, 1, i - 1) \o SubSeq(seq, i + 1, Len(seq))

\* Variant of enable_mfa that does not verify the code.
enable_mfa_unverified(user, secret, verification_code, t, batch) ==
    LET backup_codes == generate_backup_codes(batch, BACKUP_CODE_COUNT) IN
    [success |-> TRUE,
     result |-> backup_codes,
     obj |-> [user EXCEPT !.mfa_secret = Some(encrypt(secret)),
                          !.mfa_enabled = TRUE,
                          !.backup_codes = Some(HashAll(backup_codes))]]

\* (success, result) and the object as the call leaves it.
enable_mfa(user, secret, verification_code, t, batch) ==
    IF ~totp_verify(secret, verification_code, t)
    THEN [success |-> FALSE, result |-> <<"Invalid verification code">>, obj |-> user]
    ELSE LET backup_codes == generate_backup_codes(batch, BACKUP_CODE_COUNT) IN
         [success |-> TRUE,
          result |-> backup_codes,
          obj |-> [user EXCEPT !.mfa_secret = Some(encrypt(secret)),
                               !.mfa_enabled = TRUE,
                               !.backup_codes = Some(HashAll(backup_codes))]]

\* The boolean verify_mfa_code returns and the object as the call leaves it.
verify_mfa_code(user, code, t) ==
    IF ~user.mfa_enabled \/ user.mfa_secret = None
    THEN [ok |-> FALSE, obj |-> user]
    ELSE LET secret == decrypt(Val(user.mfa_secret)) IN
         IF secret = None
         THEN [ok |-> FALSE, obj |-> user]
         ELSE IF totp_verify(Val(secret), code, t)
         THEN [ok |-> TRUE, obj |-> user]
         ELSE IF user.backup_codes # None /\ InSeq(sha256(code), Val(user.backup_codes))
         THEN LET rest == ListRemove(Val(user.backup_codes), sha256(code)) IN
              [ok |-> TRUE,
               obj |-> [user EXCEPT !.backup_codes =
                            IF rest # <<>> THEN Some(rest) ELSE None]]
         ELSE [ok |-> FALSE, obj |-> user]

\* Variant of disable_mfa that only lowers the flag.
disable_mfa_flag_only(user) ==
    [success |-> TRUE,
     message |-> <<"MFA disabled successfully">>,
     obj |-> [user EXCEPT !.mfa_enabled = FALSE]]

disable_mfa(user) ==
    [success |-> TRUE,
     message |-> <<"MFA disabled successfully">>,
     obj |-> [user EXCEPT !.mfa_enabled = FALSE,
                          !.mfa_secret = None,
                          !.backup_codes = None]]

\* Variant of regenerate_backup_codes that adds the new hashes to the old ones.
regenerate_backup_codes_appending(user, batch) ==
    IF ~user.mfa_enabled
    THEN [success |-> FALSE, backup_codes |-> <<>>,
          message |-> <<"MFA is not enabled">>, obj |-> user]
    ELSE LET backup_codes == generate_backup_codes(batch, BACKUP_CODE_COUNT) IN
         [success |-> TRUE, backup_codes |-> backup_codes,
          message |-> <<"Backup codes regenerated successfully">>,
          obj |-> [user EXCEPT !.backup_codes =
                       Some((IF @ = None THEN <<>> ELSE Val(@)) \o HashAll(backup_codes))]]

\* (success, backup_codes, message) and the object as the call leaves it.
regenerate_backup_codes(user, batch) ==
    IF ~user.mfa_enabled
    THEN [success |-> FALSE, backup_codes |-> <<>>,
          message |-> <<"MFA is not enabled">>, obj |-> user]
    ELSE LET backup_codes == generate_backup_codes(batch, BACKUP_CODE_COUNT) IN
         [success |-> TRUE, backup_codes |-> backup_codes,
          message |-> <<"Backup codes regenerated successfully">>,
          obj |-> [user EXCEPT !.backup_codes = Some(HashAll(backup_codes))]]

---------------------------------------------------------------------------
(* app/auth/oauth.py: OAuthService *)

Providers == {"google", "microsoft"}

TokenUrl(provider) ==
    IF provider = "google"
    THEN "https://oauth2.googleapis.com/token"
    ELSE "https://login.microsoftonline.com/common/oauth2/v2.0/token"

UserInfoUrl(provider) ==
    IF provider = "google"
    THEN "https://www.googleapis.com/oauth2/v2/userinfo"
    ELSE "https://graph.microsoft.com/v1.0/me"

\* An HTTP request as the requests library gets it.  Neither call passes
\* timeout=, and requests then waits for the answer without limit: timeout
\* is None.
HttpRequest(method, url, bearer) ==
    [method |-> method, url |-> url, bearer |-> bearer, timeout |-> None]

\* What the provider's endpoint can answer: a status and a body, and for the
\* token endpoint the access_token of the JSON body, for the user-info
\* endpoint the profile.  Status 0 stands for no answer at all but an
\* exception of the requests library (connection refused or reset).
HttpReply(status, body, access_token, user_info) ==
    [status |-> status, body |-> body, access_token |-> access_token,
     user_info |-> user_info]

\* (user_info, success, message), and the request the call sends next
\* (None: it returns).
Exchanged(user_info, success, message) ==
    [returned |-> Some([user_info |-> user_info, success |-> success,
                        message |-> message]),
     sends |-> None]

\* exchange_google_code / exchange_microsoft_code up to the first request.
exchange_code_begin(provider) ==
    [returned |-> None, sends |-> Some(HttpRequest("POST", TokenUrl(provider), None))]

\* Variant of exchange_code_token_reply that asks the token endpoint again
\* after a failure.
exchange_code_token_reply_retrying(provider, reply) ==
    IF reply.status # 200
    THEN exchange_code_begin(provider)
    ELSE IF reply.access_token = None
    THEN Exchanged(None, FALSE, <<"No access token received">>)
    ELSE [returned |-> None,
          sends |-> Some(HttpRequest("GET", UserInfoUrl(provider), reply.access_token))]

\* The same from the answer to the token request on.
exchange_code_token_reply(provider, reply) ==
    IF reply.status = 0
    THEN Exchanged(None, FALSE, <<"OAuth error: {}", reply.body>>)
    ELSE IF reply.status # 200
    THEN Exchanged(None, FALSE, <<"Token exchange failed: {}", reply.body>>)
    ELSE IF reply.access_token = None
    THEN Exchanged(None, FALSE, <<"No access token received">>)
    ELSE [returned |-> None,
          sends |-> Some(HttpRequest("GET", UserInfoUrl(provider), reply.access_token))]

\* The same from the answer to the user-info request on.
exchange_code_userinfo_reply(provider, reply) ==
    IF reply.status = 0
    THEN Exchanged(None, FALSE, <<"OAuth error: {}", reply.body>>)
    ELSE IF reply.status # 200
    THEN Exchanged(None, FALSE, <<"User info fetch failed: {}", reply.body>>)
    ELSE Exchanged(reply.user_info, TRUE, <<"OAuth authentication successful">>)

\* (user, success, message); obj is the object the call commits (None:
\* nothing written) and created says whether it is a new row.  The handler
\* always passes access_token=None, so oauth_token is never set.
OAuthResult(user, success, message, obj, created) ==
    [user |-> user, success |-> success, message |-> message, obj |-> obj,
     created |-> created]

\* Variant of create_or_update_user_from_oauth that links whatever the
\* account holds and clears its password.
create_or_update_user_from_oauth_overwriting(table, provider, oauth_id, email_in, new_id) ==
    LET email == NormalizeEmail(email_in)
        found == UserByEmail(table, email)
    IN  IF found # None
        THEN LET linked == [Val(found) EXCEPT !.oauth_provider = Some(provider),
                                              !.oauth_id = Some(oauth_id),
                                              !.password_hash = None,
                                              !.is_verified = TRUE]
             IN  OAuthResult(Some(linked), TRUE, <<"OAuth authentication successful">>,
                             Some(linked), FALSE)
        ELSE LET user == [NewUser(new_id, email, None, Some(provider))
                              EXCEPT !.oauth_id = Some(oauth_id), !.is_verified = TRUE]
             IN  OAuthResult(Some(user), TRUE, <<"OAuth user created successfully">>,
                             Some(user), TRUE)

\* Variant of create_or_update_user_from_oauth that creates the account
\* without the linkage.
create_or_update_user_from_oauth_unlinked(table, provider, oauth_id, email_in, new_id) ==
    LET email == NormalizeEmail(email_in)
        found == UserByEmail(table, email)
    IN  IF found # None
        THEN OAuthResult(found, TRUE, <<"OAuth authentication successful">>, None, FALSE)
        ELSE LET user == [NewUser(new_id, email, None, None) EXCEPT !.is_verified = TRUE]
             IN  OAuthResult(Some(user), TRUE, <<"OAuth user created successfully">>,
                             Some(user), TRUE)

create_or_update_user_from_oauth(table, provider, oauth_id, email_in, new_id) ==
    LET email == NormalizeEmail(email_in)
        found == UserByEmail(table, email)
    IN  IF found # None
        THEN IF Val(found).oauth_provider = None
             THEN LET linked == [Val(found) EXCEPT !.oauth_provider = Some(provider),
                                                   !.oauth_id = Some(oauth_id),
                                                   !.is_verified = TRUE]
                  IN  OAuthResult(Some(linked), TRUE, <<"OAuth authentication successful">>,
                                  Some(linked), FALSE)
             ELSE OAuthResult(found, TRUE, <<"OAuth authentication successful">>,
                              None, FALSE)
        ELSE LET user == [NewUser(new_id, email, None, Some(provider))
                              EXCEPT !.oauth_id = Some(oauth_id), !.is_verified = TRUE]
             IN  OAuthResult(Some(user), TRUE, <<"OAuth user created successfully">>,
                             Some(user), TRUE)

---------------------------------------------------------------------------
(* app/auth/routes.py: what a handler returns *)

Req(email, password, user_id, code, token) ==
    [email |-> email, password |-> password, user_id |-> user_id,
     code |-> code, token |-> token]

\* op: the handler; status: the HTTP status; message, mfa_required, user_id,
\* tokens, backup_codes: the fields of the JSON body (None when absent);
\* at: the time the handler ran.
Resp(op, req, status, message, mfa_required, user_id, tokens, backup_codes, t) ==
    [op |-> op, req |-> req, status |-> status, message |-> message,
     mfa_required |-> mfa_required, user_id |-> user_id, tokens |-> tokens,
     backup_codes |-> backup_codes, at |-> t,
     returned |-> [user |-> None, success |-> FALSE]]

\* The response, with the (user, success) that the service call behind it returned.
Returning(out, user, success) ==
    [out EXCEPT !.returned = [user |-> IF user = None THEN None ELSE Some(Val(user).id),
                              success |-> success]]

NoResp == Resp("none", Req("", None, "", None, 0), 0, <<>>, FALSE, None, None, None, 0)

\* Variant of login without the MFA branch: tokens straight after the password check.
login_without_mfa_step(req, r, t) ==
    Returning(
        IF ~r.success \/ r.user = None
        THEN Resp("login", req, 401, r.message, FALSE, None, None, None, t)
        ELSE Resp("login", req, 200, r.message, FALSE, None,
                  Some(generate_jwt_tokens(Val(r.user))), None, t),
        r.user, r.success)

\* POST /login, after authenticate_user returned r.
login(req, r, t) ==
    Returning(
        IF ~r.success \/ r.user = None
        THEN Resp("login", req, 401, r.message, FALSE, None, None, None, t)
        ELSE IF Val(r.user).mfa_enabled
        THEN Resp("login", req, 200, <<"MFA verification required">>, TRUE,
                  Some(Val(r.user).id), None, None, t)
        ELSE Resp("login", req, 200, r.message, FALSE, None,
                  Some(generate_jwt_tokens(Val(r.user))), None, t),
        r.user, r.success)

\* POST /register, after register_user returned r.  The answer also names
\* the error heading and the role asked for.
register(req, role, r, t) ==
    IF ~r.success
    THEN [error |-> "Registration Failed", role |-> role]
             @@ Resp("register", req, 400, r.message, FALSE, None, None, None, t)
    ELSE [error |-> "", role |-> role]
             @@ Resp("register", req, 201, r.message, FALSE, Some(Val(r.user).id),
                     Some(generate_jwt_tokens(Val(r.user))), None, t)

\* Variant of refresh that copies the claims of the presented token.
refresh_trusting_token(req, found, t) ==
    Resp("refresh", req, 200, <<>>, FALSE, None,
         Some([access_token |-> [req.token EXCEPT !.type = "access"]]), None, t)

\* POST /refresh, for the object the lookup by the token's identity returned.
\* @jwt_required(refresh=True) has let the request through: req.token is a
\* refresh token this server signed.
refresh(req, found, t) ==
    IF found = None \/ ~Val(found).is_active
    THEN Resp("refresh", req, 401, <<"User not found or inactive">>, FALSE, None, None, None, t)
    ELSE Resp("refresh", req, 200, <<>>, FALSE, None,
              Some([access_token |-> Claims(Val(found), "access")]), None, t)

\* POST /mfa/verify, for the object the lookup by user_id returned and the
\* result v of verify_mfa_code on it (used only when the user was found).
verify_mfa(req, found, v, t) ==
    IF found = None
    THEN Resp("verify_mfa", req, 401, <<"User not found">>, FALSE, None, None, None, t)
    ELSE IF ~v.ok
    THEN Resp("verify_mfa", req, 401, <<"Invalid MFA code">>, FALSE, None, None, None, t)
    ELSE Resp("verify_mfa", req, 200, <<"MFA verification successful">>, FALSE, None,
              Some(generate_jwt_tokens(v.obj)), None, t)

\* GET /oauth/callback after the code exchange returned r: the answer, and
\* what create_or_update_user_from_oauth returned (None when it was not
\* called).  The tokens are issued as soon as the account is found or made.
oauth_callback(req, r, table, new_id, t) ==
    IF ~r.success \/ r.user_info = None
    THEN [out |-> Resp("oauth_callback", req, 400, r.message, FALSE, None, None, None, t),
          service |-> None]
    ELSE LET user_info == Val(r.user_info) IN
         IF user_info.email = None \/ user_info.id = None
         THEN [out |-> Resp("oauth_callback", req, 400,
                            <<"Incomplete user information from provider">>,
                            FALSE, None, None, None, t),
               service |-> None]
         ELSE LET c == create_or_update_user_from_oauth(
                           table, req.provider, Val(user_info.id), Val(user_info.email), new_id)
              IN  IF ~c.success \/ c.user = None
                  THEN [out |-> Resp("oauth_callback", req, 400, c.message,
                                     FALSE, None, None, None, t),
                        service |-> Some(c)]
                  ELSE [out |-> Returning(
                                    Resp("oauth_callback", req, 200,
                                         <<"OAuth authentication successful">>, FALSE,
                                         Some(Val(c.user).id),
                                         Some(generate_jwt_tokens(Val(c.user))), None, t),
                                    c.user, TRUE),
                        service |-> Some(c)]

\* The table after a request that loaded `loaded` commits the object `obj`.
CommitUser(table, loaded, obj, forced) ==
    IF obj = None
    THEN table
    ELSE [table EXCEPT ![Val(obj).id] = FlushRow(@, Val(loaded), Val(obj), forced)]

---------------------------------------------------------------------------
(* The state machine: one request at a time *)

\* Accounts present at the start.  The password account is the one the test
\* fixture creates (tests/conftest.py), active or deactivated by an
\* administrator; the password-less one is what the first OAuth login creates
\* (auth/oauth.py).  With MFA on, the account is as enable_mfa leaves it: the
\* encrypted seed and the hashes of backup-code batch 1.
WithMfa(u, secret, batch) ==
    [u EXCEPT !.mfa_secret = Some(encrypt(secret)),
              !.mfa_enabled = TRUE,
              !.backup_codes = Some(HashAll(generate_backup_codes(batch, BACKUP_CODE_COUNT)))]

FixtureUser(id, email, active) ==
    [NewUser(id, email, Some(generate_password_hash(PwTest)), None)
        EXCEPT !.is_verified = TRUE, !.is_active = active]

OAuthUser(id, email, active) ==
    [NewUser(id, email, None, Some("google"))
        EXCEPT !.oauth_id = Some("id-1"), !.is_verified = TRUE, !.is_active = active]

IdleSession ==
    [pc |-> "idle", op |-> "none", req |-> None, user |-> None, grant |-> None,
     out |-> None]

\* Bookkeeping counters: the count of x in f, and f with one more x (counted
\* up to 2, "more than once").
Count(f, x) == IF x \in DOMAIN f THEN f[x] ELSE 0

Bump(f, x) == (x :> (IF Count(f, x) >= 2 THEN 2 ELSE Count(f, x) + 1)) @@ f

\* No code exchange in progress, none made yet.
IdleOAuth == [pc |-> "idle", provider |-> "", sent |-> <<>>, got |-> <<>>]

\* No SecurityManager instance yet, no token made.
EmptyVault == [managers |-> <<>>, tokens |-> <<>>]

\* The state of a fresh deployment whose users table is `table`, `batches`
\* backup-code batches having been generated.
StartOn(table, batches, d) ==
    /\ dialect = d
    /\ users = table
    /\ reset_tokens = <<>>
    /\ now = 0
    /\ resp = NoResp
    /\ sess = [w \in Workers |-> IdleSession]
    /\ issued = batches
    /\ streak = [id \in DOMAIN table |-> 0]
    /\ accepted = <<>>
    /\ redeemed = <<>>
    /\ redis = <<>>
    /\ clock = 0
    /\ checks = <<>>
    /\ vault = EmptyVault
    /\ oauth = IdleOAuth

\* The same on the default database (config.py: PostgreSQL).
Start(table, batches) == StartOn(table, batches, "postgresql")

\* One active account, of any kind.
Init ==
    \E password \in BOOLEAN, mfa \in BOOLEAN :
        LET u == IF password
                 THEN FixtureUser("u1", "test@example.com", TRUE)
                 ELSE OAuthUser("u1", "test@example.com", TRUE)
        IN  Start([id \in {"u1"} |-> IF mfa THEN WithMfa(u, "SEED-A", 1) ELSE u],
                  IF mfa THEN 1 ELSE 0)

\* Bookkeeping for the lockout claims, not program state: the number of
\* consecutive authenticate_user calls with a wrong password for the account
\* since it was created or last logged in (counted up to MAX_ATTEMPTS + 1).
StreakAfter(table, count, email, password, success) ==
    LET found == UserByEmail(table, NormalizeEmail(email)) IN
    IF found = None
    THEN count
    ELSE LET id == Val(found).id IN
         IF success
         THEN [count EXCEPT ![id] = 0]
         ELSE IF Val(found).password_hash # Some(generate_password_hash(password))
         THEN [count EXCEPT ![id] = IF @ > MAX_ATTEMPTS THEN @ ELSE @ + 1]
         ELSE count

\* Bookkeeping for the backup-code claims: a verification that succeeded with
\* a backup code counts as one acceptance of that code for that account.
AcceptedAfter(count, user_id, code, ok) ==
    IF ok /\ code.kind = "backup"
    THEN Bump(count, <<user_id, code>>)
    ELSE count

\* POST /login
Login(email, password) ==
    LET found == UserByEmail(users, NormalizeEmail(email))
        r == authenticate_user(found, password, now)
    IN  /\ users' = CommitUser(users, found, r.obj, {})
        /\ resp' = login(Req(email, Some(password), "", None, 0), r, now)
        /\ streak' = StreakAfter(users, streak, email, password, r.success)
        /\ UNCHANGED <<aux, reset_tokens, now, sess, issued, accepted, redeemed>>

\* The codes a request may carry at time t: TOTP codes of the steps around the
\* current one, and backup codes of the batches (batch 0 was never generated).
CodeInputs(t) ==
    {TotpCode("SEED-A", k) : k \in (TimeStep(t) - 2)..(TimeStep(t) + 2)}
        \cup {TotpCode("SEED-B", TimeStep(t))}
        \cup {BackupCode(b, i) : b \in 0..MaxBatches, i \in 1..MaxTriedCode}

\* POST /mfa/verify
VerifyMfa(user_id, code) ==
    LET found == get_user_by_id(users, user_id)
        v == verify_mfa_code(Val(found), code, now)
        out == verify_mfa(Req("", None, user_id, Some(code), 0), found, v, now)
    IN  /\ users' = IF found = None THEN users
                    ELSE CommitUser(users, found, Some(v.obj), {})
        /\ resp' = out
        /\ accepted' = AcceptedAfter(accepted, user_id, code, out.status = 200)
        /\ UNCHANGED <<aux, reset_tokens, now, sess, issued, streak, redeemed>>

\* POST /mfa/enable, called by the authenticated user user_id
EnableMfa(user_id, secret, code) ==
    LET found == get_user_by_id(users, user_id)
        r == enable_mfa(Val(found), secret, code, now, issued + 1)
        req == [secret |-> secret] @@ Req("", None, user_id, Some(code), 0)
    IN  /\ issued < MaxBatches
        /\ found # None
        /\ users' = CommitUser(users, found, Some(r.obj), {"mfa_secret"})
        /\ issued' = IF r.success THEN issued + 1 ELSE issued
        /\ resp' = IF r.success
                   THEN Resp("enable_mfa", req, 200, <<"MFA enabled successfully">>,
                             FALSE, None, None, Some(r.result), now)
                   ELSE Resp("enable_mfa", req, 400, r.result, FALSE, None, None, None, now)
        /\ UNCHANGED <<aux, reset_tokens, now, sess, streak, accepted, redeemed>>

\* POST /mfa/disable, called by the authenticated user user_id
DisableMfa(user_id, password) ==
    LET found == get_user_by_id(users, user_id)
        req == Req("", Some(password), user_id, None, 0)
    IN  /\ found # None
        /\ IF ~check_password(Val(found), password)
           THEN /\ resp' = Resp("disable_mfa", req, 401, <<"Invalid password">>,
                                FALSE, None, None, None, now)
                /\ users' = users
           ELSE LET r == disable_mfa(Val(found)) IN
                /\ resp' = Resp("disable_mfa", req, 200, r.message,
                                FALSE, None, None, None, now)
                /\ users' = CommitUser(users, found, Some(r.obj), {})
        /\ UNCHANGED <<aux, reset_tokens, now, sess, issued, streak, accepted, redeemed>>

\* POST /mfa/backup-codes, called by the authenticated user user_id
RegenerateBackupCodes(user_id) ==
    LET found == get_user_by_id(users, user_id)
        req == Req("", None, user_id, None, 0)
    IN  /\ issued < MaxBatches
        /\ found # None
        /\ IF ~Val(found).mfa_enabled
           THEN /\ resp' = Resp("regenerate_backup_codes", req, 400,
                                <<"MFA is not enabled">>, FALSE, None, None, None, now)
                /\ UNCHANGED <<users, issued>>
           ELSE LET r == regenerate_backup_codes(Val(found), issued + 1) IN
                /\ resp' = Resp("regenerate_backup_codes", req, 200, r.message,
                                FALSE, None, None, Some(r.backup_codes), now)
                /\ users' = CommitUser(users, found, Some(r.obj), {})
                /\ issued' = issued + 1
        /\ UNCHANGED <<aux, reset_tokens, now, sess, streak, accepted, redeemed>>

\* POST /password-reset/request
\* Variant of request_password_reset that answers with the service's message.
request_password_reset_telling(req, r, t) ==
    Resp("request_password_reset", req, 200, r.message, FALSE, None, None, None, t)

\* The handler's answer after create_password_reset_token returned r: the
\* same body and status whatever r is.
request_password_reset(req, r, t) ==
    Resp("request_password_reset", req, 200,
         <<"If an account exists with this email, a password reset link has been sent">>,
         FALSE, None, None, None, t)

RequestPasswordReset(email, max) ==
    LET found == UserByEmail(users, NormalizeEmail(email))
        r == create_password_reset_token(reset_tokens, found, Len(reset_tokens) + 1, now)
    IN  /\ Len(reset_tokens) < max
        /\ reset_tokens' = r.table
        /\ resp' = request_password_reset(Req(email, None, "", None, 0), r, now)
        /\ UNCHANGED <<aux, users, now, sess, issued, streak, accepted, redeemed>>

\* The token table after a request that loaded the row `loaded` commits it as `obj`.
CommitToken(table, loaded, obj) ==
    IF obj = None
    THEN table
    ELSE [table EXCEPT ![Val(obj).id] = FlushRow(@, Val(loaded), Val(obj), {})]

\* The row of a grant's user (reset_token.user).
Owner(table, grant) == IF grant = None THEN None ELSE get_user_by_id(table, Val(grant).user_id)

\* POST /password-reset/confirm
confirm_password_reset(req, r, t) ==
    IF ~r.success
    THEN Resp("confirm_password_reset", req, 400, r.message, FALSE, None, None, None, t)
    ELSE Resp("confirm_password_reset", req, 200, r.message, FALSE, None, None, None, t)

ConfirmPasswordReset(token, new_password) ==
    LET grant == UnusedTokenByValue(reset_tokens, token)
        owner == Owner(users, grant)
        r == reset_password(grant, Val(owner), new_password, now)
    IN  /\ reset_tokens' = CommitToken(reset_tokens, grant, r.grant)
        /\ users' = CommitUser(users, owner, r.user, {"password_hash", "password_changed_at"})
        /\ resp' = confirm_password_reset(Req("", Some(new_password), "", None, token), r, now)
        /\ redeemed' = IF r.success THEN Bump(redeemed, token) ELSE redeemed
        /\ UNCHANGED <<aux, now, sess, issued, streak, accepted>>

\* POST /password/change, called by the authenticated user user_id
ChangePassword(user_id, current_password, new_password) ==
    LET found == get_user_by_id(users, user_id)
        r == change_password(Val(found), current_password, new_password, now)
        req == [new_password |-> new_password]
                   @@ Req("", Some(current_password), user_id, None, 0)
    IN  /\ found # None
        /\ users' = CommitUser(users, found, r.obj, {"password_hash", "password_changed_at"})
        /\ resp' = Resp("change_password", req, IF r.success THEN 200 ELSE 400,
                        r.message, FALSE, None, None, None, now)
        /\ UNCHANGED <<aux, reset_tokens, now, sess, issued, streak, accepted, redeemed>>

\* An administrator deactivates the account (the soft-disable of the data
\* model: no handler writes is_active, the column is set in the database).
AdminDeactivate(user_id) ==
    /\ user_id \in DOMAIN users
    /\ users[user_id].is_active
    /\ users' = [users EXCEPT ![user_id].is_active = FALSE]
    /\ resp' = NoResp
    /\ UNCHANGED <<aux, reset_tokens, now, sess, issued, streak, accepted, redeemed>>

\* The clock advances by one of the steps, up to max.
Tick(steps, max) ==
    /\ \E d \in steps : now + d <= max /\ now' = now + d
    /\ resp' = NoResp
    /\ UNCHANGED <<aux, users, reset_tokens, sess, issued, streak, accepted, redeemed>>

---------------------------------------------------------------------------
(* Specifications *)

\* Login and MFA verification against one account, the clock being read at
\* 0, 14 and 15 minutes.
Next ==
    \/ \E email \in EmailInputs, password \in LoginPasswords : Login(email, password)
    \/ \E id \in UserIds, code \in CodeInputs(now) : VerifyMfa(id, code)
    \/ \E id \in UserIds : AdminDeactivate(id)
    \/ Tick({LOCK_MINUTES - 1, LOCK_MINUTES}, MaxTime)

Spec == Init /\ [][Next]_vars

\* MFA management for one password account.
InitMfa == Start([id \in {"u1"} |-> FixtureUser("u1", "test@example.com", TRUE)], 0)

NextMfa ==
    \/ \E id \in UserIds, s \in Secrets, code \in CodeInputs(now) : EnableMfa(id, s, code)
    \/ \E id \in UserIds, code \in CodeInputs(now) : VerifyMfa(id, code)
    \/ \E id \in UserIds, password \in LoginPasswords : DisableMfa(id, password)
    \/ \E id \in UserIds : RegenerateBackupCodes(id)
    \/ Tick({1}, MaxMfaTime)

SpecMfa == InitMfa /\ [][NextMfa]_vars

\* An account with MFA on: logins and MFA verification while its owner
\* turns MFA off and on again.
InitDisable ==
    Start([id \in {"u1"} |-> WithMfa(FixtureUser("u1", "test@example.com", TRUE), "SEED-A", 1)], 1)

NextDisable ==
    \/ \E id \in UserIds, password \in LoginPasswords : DisableMfa(id, password)
    \/ \E id \in UserIds, code \in CodeInputs(now) : VerifyMfa(id, code)
    \/ \E email \in EmailInputs, password \in LoginPasswords : Login(email, password)
    \/ \E id \in UserIds, code \in CodeInputs(now) : EnableMfa(id, "SEED-B", code)

SpecDisable == InitDisable /\ [][NextDisable]_vars

\* Password reset for a password account and an OAuth-only account, the clock
\* being read at 0, 60 and 61 minutes.
InitReset ==
    Start([id \in UserIds |-> IF id = "u1"
                              THEN FixtureUser("u1", "test@example.com", TRUE)
                              ELSE OAuthUser("u2", "sso@example.com", TRUE)], 0)

ResetEmails == {"test@example.com", "sso@example.com", "ghost@example.com"}

NextReset ==
    \/ \E email \in ResetEmails : RequestPasswordReset(email, MaxTokens)
    \/ \E token \in 0..MaxTokens, password \in NewPasswords :
           ConfirmPasswordReset(token, password)
    \/ Tick({RESET_TOKEN_MINUTES, RESET_TOKEN_MINUTES + 1}, MaxResetTime)

SpecReset == InitReset /\ [][NextReset]_vars

---------------------------------------------------------------------------
(* Concurrent requests.  Each worker serves one request at a time in its own  *)
(* database session: the handler's query loads its objects (Begin...), and    *)
(* the rest of the handler runs on those objects and commits (Finish...).     *)
(* Nothing in the handlers locks a row (no SELECT ... FOR UPDATE, no version  *)
(* column), so other sessions may commit in between.                          *)

Free(w) == sess[w].pc \in {"idle", "done"}

Loaded(w, op) == sess[w].pc = "loaded" /\ sess[w].op = op

Begin(w, op, req, user, grant) ==
    sess' = [sess EXCEPT ![w] = [pc |-> "loaded", op |-> op, req |-> Some(req),
                                 user |-> user, grant |-> grant, out |-> None]]

\* The worker answers and is free again; its last answer stays in `out`.
Finish(w, out) ==
    sess' = [sess EXCEPT ![w] = [IdleSession EXCEPT !.pc = "done", !.out = Some(out)]]

BeginLogin(w, email, password) ==
    /\ Free(w)
    /\ Begin(w, "login", Req(email, Some(password), "", None, 0),
             UserByEmail(users, NormalizeEmail(email)), None)
    /\ UNCHANGED <<aux, users, reset_tokens, now, resp, issued, streak, accepted, redeemed>>

FinishLogin(w) ==
    LET req == Val(sess[w].req)
        r == authenticate_user(sess[w].user, Val(req.password), now)
    IN  /\ Loaded(w, "login")
        /\ users' = CommitUser(users, sess[w].user, r.obj, {})
        /\ Finish(w, login(req, r, now))
        /\ streak' = StreakAfter(users, streak, req.email, Val(req.password), r.success)
        /\ UNCHANGED <<aux, reset_tokens, now, resp, issued, accepted, redeemed>>

BeginVerifyMfa(w, user_id, code) ==
    /\ Free(w)
    /\ Begin(w, "verify_mfa", Req("", None, user_id, Some(code), 0),
             get_user_by_id(users, user_id), None)
    /\ UNCHANGED <<aux, users, reset_tokens, now, resp, issued, streak, accepted, redeemed>>

FinishVerifyMfa(w) ==
    LET req == Val(sess[w].req)
        found == sess[w].user
        v == verify_mfa_code(Val(found), Val(req.code), now)
        out == verify_mfa(req, found, v, now)
    IN  /\ Loaded(w, "verify_mfa")
        /\ users' = IF found = None THEN users
                    ELSE CommitUser(users, found, Some(v.obj), {})
        /\ Finish(w, out)
        /\ accepted' = AcceptedAfter(accepted, req.user_id, Val(req.code), out.status = 200)
        /\ UNCHANGED <<aux, reset_tokens, now, resp, issued, streak, redeemed>>

\* validate_password runs before the query: a request it rejects loads nothing.
BeginConfirmReset(w, token, new_password) ==
    /\ Free(w)
    /\ Begin(w, "confirm_password_reset", Req("", Some(new_password), "", None, token), None,
             IF validate_password(new_password, MIN_PASSWORD_LENGTH) # None
             THEN None
             ELSE UnusedTokenByValue(reset_tokens, token))
    /\ UNCHANGED <<aux, users, reset_tokens, now, resp, issued, streak, accepted, redeemed>>

FinishConfirmReset(w) ==
    LET req == Val(sess[w].req)
        grant == sess[w].grant
        owner == Owner(users, grant)
        r == reset_password(grant, Val(owner), Val(req.password), now)
    IN  /\ Loaded(w, "confirm_password_reset")
        /\ reset_tokens' = CommitToken(reset_tokens, grant, r.grant)
        /\ users' = CommitUser(users, owner, r.user, {"password_hash", "password_changed_at"})
        /\ Finish(w, confirm_password_reset(req, r, now))
        /\ redeemed' = IF r.success THEN Bump(redeemed, req.token) ELSE redeemed
        /\ UNCHANGED <<aux, now, resp, issued, streak, accepted>>

\* One password account with MFA on; wrong-password logins, backup codes and
\* reset confirmations from two workers, reset requests in between.
InitConc ==
    Start([id \in {"u1"} |->
              WithMfa(FixtureUser("u1", "test@example.com", TRUE), "SEED-A", 1)], 1)

NextConc ==
    \/ \E w \in Workers : BeginLogin(w, "test@example.com", PwWrong)
    \/ \E w \in Workers : FinishLogin(w)
    \/ \E w \in Workers, i \in 1..MaxConcCodes : BeginVerifyMfa(w, "u1", BackupCode(1, i))
    \/ \E w \in Workers : FinishVerifyMfa(w)
    \/ \E w \in Workers, token \in 1..MaxConcTokens, password \in {PwNew, PwTest} :
           BeginConfirmReset(w, token, password)
    \/ \E w \in Workers : FinishConfirmReset(w)
    \/ RequestPasswordReset("test@example.com", MaxConcTokens)

SpecConc == InitConc /\ [][NextConc]_vars

---------------------------------------------------------------------------
(* Registration *)

Dialects == {"postgresql", "sqlite"}

RegisterEmails == {"new@example.com", " New@Example.COM ", "ghost@example.com", "not-an-email"}
RegisterRoles == {"CEO", "Admin", "Intern"}

\* uuid.uuid4(): an id no row has.
NewId(table) == CHOOSE id \in UserIds \ DOMAIN table : TRUE

\* POST /register
Register(email, password, role) ==
    /\ UserIds \ DOMAIN users # {}
    /\ LET r == register_user(users, email, password, role, NewId(users), dialect, now) IN
       /\ users' = IF r.success
                   THEN (NewId(users) :> Val(r.user)) @@ users
                   ELSE users
       /\ streak' = IF r.success THEN (NewId(users) :> 0) @@ streak ELSE streak
       /\ resp' = register(Req(email, Some(password), "", None, 0), role, r, now)
    /\ UNCHANGED <<aux, reset_tokens, now, sess, issued, accepted, redeemed>>

\* An empty users table on either database.
InitRegister == \E d \in Dialects : StartOn(<<>>, 0, d)

NextRegister ==
    \/ \E email \in RegisterEmails, password \in NewPasswords, role \in RegisterRoles :
           Register(email, password, role)
    \/ \E email \in RegisterEmails : Login(email, PwNew)

SpecRegister == InitRegister /\ [][NextRegister]_vars

\* A new user's first session: registration, login, MFA set-up and the MFA
\* login, on either database.
NextJourney ==
    \/ Register("alice@example.com", PwStrong, "CEO")
    \/ \E password \in {PwStrong, PwWrong} : Login("alice@example.com", password)
    \/ \E id \in UserIds, code \in CodeInputs(now) : EnableMfa(id, "SEED-A", code)
    \/ \E id \in UserIds, code \in CodeInputs(now) : VerifyMfa(id, code)
    \/ Tick({1}, MaxMfaTime)

SpecJourney == InitRegister /\ [][NextJourney]_vars

---------------------------------------------------------------------------
(* Tokens *)

Roles == {"CEO", "CFO", "Admin"}

\* Refresh tokens a client may hold: minted for an account id at a time when
\* the account had the role and the MFA setting the token carries.
RefreshTokens ==
    {[type |-> "refresh", sub |-> id, role |-> role, email |-> "test@example.com",
      mfa_enabled |-> mfa] : id \in UserIds, role \in Roles, mfa \in BOOLEAN}

Refresh(token) ==
    LET found == get_user_by_id(users, token.sub) IN
    /\ resp' = refresh(Req("", None, "", None, token), found, now)
    /\ UNCHANGED <<aux, users, reset_tokens, now, sess, issued, streak, accepted, redeemed>>

\* An administrator changes the account's role, or removes the account (in
\* the database: no handler of the application does either).
AdminSetRole(user_id, role) ==
    /\ user_id \in DOMAIN users
    /\ users[user_id].role # role
    /\ users' = [users EXCEPT ![user_id].role = role]
    /\ resp' = NoResp
    /\ UNCHANGED <<aux, reset_tokens, now, sess, issued, streak, accepted, redeemed>>

AdminDelete(user_id) ==
    /\ user_id \in DOMAIN users
    /\ users' = [id \in DOMAIN users \ {user_id} |-> users[id]]
    /\ resp' = NoResp
    /\ UNCHANGED <<aux, reset_tokens, now, sess, issued, streak, accepted, redeemed>>

\* One account, with or without MFA; logins, MFA verification and refresh
\* while an administrator changes, deactivates or removes the account.
InitTokens ==
    \E mfa \in BOOLEAN :
        LET u == FixtureUser("u1", "test@example.com", TRUE) IN
        Start([id \in {"u1"} |-> IF mfa THEN WithMfa(u, "SEED-A", 1) ELSE u],
              IF mfa THEN 1 ELSE 0)

NextTokens ==
    \/ \E email \in EmailInputs : Login(email, PwTest)
    \/ \E id \in UserIds : VerifyMfa(id, BackupCode(1, 1))
    \/ \E token \in RefreshTokens : Refresh(token)
    \/ \E id \in UserIds, role \in Roles : AdminSetRole(id, role)
    \/ \E id \in UserIds : AdminDeactivate(id)
    \/ \E id \in UserIds : AdminDelete(id)

SpecTokens == InitTokens /\ [][NextTokens]_vars

---------------------------------------------------------------------------
(* Password change *)

CurrentPasswords == {PwTest, PwNew, PwWrong}
ChangedPasswords == {PwNew, PwTest, PwWeak}

\* A password account and an OAuth-only account; password changes and
\* logins, the clock being read at 0 and 1 minutes.
NextChange ==
    \/ \E id \in UserIds, current \in CurrentPasswords, new \in ChangedPasswords :
           ChangePassword(id, current, new)
    \/ \E email \in ResetEmails, password \in CurrentPasswords : Login(email, password)
    \/ Tick({1}, MaxMfaTime)

SpecChange == InitReset /\ [][NextChange]_vars

---------------------------------------------------------------------------
(* OAuth login *)

\* What a provider's token endpoint may answer.
TokenReplies ==
    {HttpReply(200, "token-json", Some("access-1"), None),
     HttpReply(200, "empty-json", None, None),
     HttpReply(400, "invalid_grant", None, None),
     HttpReply(503, "service unavailable", None, None),
     HttpReply(0, "connection reset", None, None)}

\* The profiles a provider may return: an address in any spelling and the
\* provider's id of the person, or a profile without address.
UserInfos ==
    {[email |-> Some(e), id |-> Some(i)] :
         e \in {"test@example.com", " Test@Example.COM ", "sso@example.com"},
         i \in {"id-1", "id-2"}}
        \cup {[email |-> None, id |-> Some("id-1")]}

UserInfoReplies ==
    {HttpReply(200, "profile-json", None, Some(info)) : info \in UserInfos}
        \cup {HttpReply(401, "invalid_token", None, None),
              HttpReply(0, "connection reset", None, None)}

OAuthReq(provider) == [provider |-> provider] @@ Req("", None, "", None, 0)

\* The handler returns: its answer (with the profile the provider gave, for
\* reference) and the account it linked or created.
OAuthReturn(r) ==
    LET new_id == IF UserIds \ DOMAIN users = {} THEN "" ELSE NewId(users)
        h == oauth_callback(OAuthReq(oauth.provider), r, users, new_id, now)
        c == h.service
    IN  /\ (c # None /\ Val(c).created) => UserIds \ DOMAIN users # {}
        /\ resp' = [identity |-> r.user_info] @@ h.out
        /\ IF c = None \/ Val(c).obj = None
           THEN UNCHANGED <<users, streak>>
           ELSE IF Val(c).created
           THEN /\ users' = (new_id :> Val(Val(c).obj)) @@ users
                /\ streak' = (new_id :> 0) @@ streak
           ELSE /\ users' = CommitUser(users, UserByEmail(users, Val(Val(c).obj).email),
                                       Val(c).obj, {})
                /\ streak' = streak

\* GET /oauth/callback?code=...&provider=...: up to the token request, which
\* the handler then waits on.
OAuthCallback(provider) ==
    /\ oauth.pc = "idle"
    /\ IF provider \notin Providers
       THEN /\ resp' = [identity |-> None] @@
                        Resp("oauth_callback", OAuthReq(provider), 400,
                             <<"Unknown provider: {}", provider>>, FALSE, None, None, None, now)
            /\ oauth' = [pc |-> "idle", provider |-> provider, sent |-> <<>>, got |-> <<>>]
       ELSE /\ resp' = NoResp
            /\ oauth' = [pc |-> "token_wait", provider |-> provider,
                         sent |-> <<Val(exchange_code_begin(provider).sends)>>,
                         got |-> <<>>]
    /\ UNCHANGED <<users, reset_tokens, now, sess, issued, streak, accepted, redeemed,
                   redis, clock, checks, vault, dialect>>

\* The token endpoint answers, and the handler runs on to its next request
\* or to its end.
OAuthTokenReply(reply) ==
    /\ oauth.pc = "token_wait"
    /\ LET x == exchange_code_token_reply(oauth.provider, reply) IN
       IF x.returned = None
       THEN /\ oauth' = [oauth EXCEPT !.pc = IF Val(x.sends).method = "GET"
                                              THEN "userinfo_wait" ELSE "token_wait",
                                       !.sent = Append(@, Val(x.sends)),
                                       !.got = Append(@, reply)]
            /\ resp' = NoResp
            /\ UNCHANGED <<users, streak>>
       ELSE /\ oauth' = [oauth EXCEPT !.pc = "idle", !.got = Append(@, reply)]
            /\ OAuthReturn(Val(x.returned))
    /\ UNCHANGED <<reset_tokens, now, sess, issued, accepted, redeemed,
                   redis, clock, checks, vault, dialect>>

\* The user-info endpoint answers, and the handler runs to its end.
OAuthUserInfoReply(reply) ==
    /\ oauth.pc = "userinfo_wait"
    /\ oauth' = [oauth EXCEPT !.pc = "idle", !.got = Append(@, reply)]
    /\ OAuthReturn(Val(exchange_code_userinfo_reply(oauth.provider, reply).returned))
    /\ UNCHANGED <<reset_tokens, now, sess, issued, accepted, redeemed,
                   redis, clock, checks, vault, dialect>>

\* A password account, verified or not yet, and logins through the two
\* providers.
InitOAuth ==
    \E verified \in BOOLEAN :
        Start([id \in {"u1"} |->
                  [FixtureUser("u1", "test@example.com", TRUE) EXCEPT !.is_verified = verified]],
              0)

NextOAuth ==
    \/ \E provider \in Providers \cup {"github"} : OAuthCallback(provider)
    \/ \E reply \in TokenReplies : OAuthTokenReply(reply)
    \/ \E reply \in UserInfoReplies : OAuthUserInfoReply(reply)

SpecOAuth == InitOAuth /\ [][NextOAuth]_vars

\* Accounts from nothing, on either database: registrations and OAuth
\* logins create them, password reset, password change and the MFA
\* operations work on them.
AccountEmails == {"new@example.com", "sso@example.com"}

AccountTokenReplies ==
    {HttpReply(200, "token-json", Some("access-1"), None),
     HttpReply(400, "invalid_grant", None, None)}

AccountUserInfoReplies ==
    {HttpReply(200, "profile-json", None, Some([email |-> Some(e), id |-> Some("id-1")])) :
         e \in {"test@example.com", "sso@example.com"}}
        \cup {HttpReply(401, "invalid_token", None, None)}

NextAccounts ==
    \/ \E password \in {PwNew, PwWeak} : Register("new@example.com", password, "CEO")
    \/ \E provider \in Providers : OAuthCallback(provider)
    \/ \E reply \in AccountTokenReplies : OAuthTokenReply(reply)
    \/ \E reply \in AccountUserInfoReplies : OAuthUserInfoReply(reply)
    \/ \E email \in AccountEmails : RequestPasswordReset(email, MaxGrants)
    \/ \E token \in 0..MaxGrants : ConfirmPasswordReset(token, PwTest)
    \/ \E id \in UserIds : ChangePassword(id, PwNew, PwStrong)
    \/ \E id \in UserIds : EnableMfa(id, "SEED-A", TotpCode("SEED-A", TimeStep(now)))
    \/ \E id \in UserIds : DisableMfa(id, PwNew)

SpecAccounts == InitRegister /\ [][NextAccounts]_vars

---------------------------------------------------------------------------
(* Rate limiting *)

\* One more x counted in f.
Tally(f, x) == (x :> (Count(f, x) + 1)) @@ f

\* The 60-second slice [t - t mod 60, +60) a time lies in.
Slice(t) == t - (t % WindowSeconds)

\* Bookkeeping: one more check of the key in the slice of t and, when it was
\* allowed, one more call allowed in the lifetime of the counter (a counter
\* that was not there starts a new lifetime).
ChecksAfter(count, store, redis_key, t, allowed) ==
    LET made == Tally(count, <<"made", redis_key, Slice(t)>>) IN
    IF ~allowed
    THEN made
    ELSE IF RedisLive(store, redis_key, t)
    THEN Tally(made, <<"allowed", redis_key>>)
    ELSE (<<"allowed", redis_key>> :> 1) @@ made

LimitResp(algorithm, key, r, t) ==
    [op |-> "check_rate_limit", algorithm |-> algorithm, key |-> key,
     allowed |-> r.allowed, remaining |-> r.remaining, reset_time |-> r.reset_time,
     at |-> t]

CheckRateLimit(key, algorithm) ==
    LET r == check_rate_limit(redis, key, Limit, WindowSeconds, algorithm, clock)
        redis_key == IF algorithm = "fixed_window" THEN FixedKey(key) ELSE BucketKey(key)
    IN  /\ Count(checks, <<"made", redis_key, Slice(clock)>>) < MaxChecks
        /\ redis' = r.store
        /\ resp' = LimitResp(algorithm, key, r, clock)
        /\ checks' = ChecksAfter(checks, redis, redis_key, clock, r.allowed)
        /\ UNCHANGED <<users, reset_tokens, now, sess, issued, streak, accepted, redeemed,
                       clock, vault, dialect, oauth>>

\* time.time() advances by one of the steps, up to max.
TickClock(steps, max) ==
    /\ \E d \in steps : clock + d <= max /\ clock' = clock + d
    /\ resp' = NoResp
    /\ UNCHANGED <<users, reset_tokens, now, sess, issued, streak, accepted, redeemed,
                   redis, checks, vault, dialect, oauth>>

\* _fixed_window in two steps, as two workers run it: redis.get, then the
\* comparison and the incr/expire pipeline.
BeginCheckFixed(w, key) ==
    /\ Free(w)
    /\ Count(checks, <<"begun", FixedKey(key)>>) < MaxChecks
    /\ sess' = [sess EXCEPT ![w] =
                   [pc |-> "loaded", op |-> "check_rate_limit", req |-> Some(key),
                    user |-> None, grant |-> None, out |-> None,
                    got |-> RedisGet(redis, FixedKey(key), clock)]]
    /\ checks' = Tally(checks, <<"begun", FixedKey(key)>>)
    /\ UNCHANGED <<users, reset_tokens, now, resp, issued, streak, accepted, redeemed,
                   redis, clock, vault, dialect, oauth>>

FinishCheckFixed(w) ==
    LET key == Val(sess[w].req)
        r == fixed_window_decide(redis, key, sess[w].got, Limit, WindowSeconds, clock)
    IN  /\ Loaded(w, "check_rate_limit")
        /\ redis' = r.store
        /\ Finish(w, LimitResp("fixed_window", key, r, clock))
        /\ checks' = ChecksAfter(checks, redis, FixedKey(key), clock, r.allowed)
        /\ UNCHANGED <<users, reset_tokens, now, resp, issued, streak, accepted, redeemed,
                       clock, vault, dialect, oauth>>

InitLimit == Start(<<>>, 0)

\* The fixed-window limiter for one key, the clock being read every 30 seconds.
NextFixed ==
    \/ \E key \in LimitKeys : CheckRateLimit(key, "fixed_window")
    \/ TickClock({30, 60}, MaxClock)

SpecFixed == InitLimit /\ [][NextFixed]_vars

\* The token bucket for one key, the clock being read every 6 seconds and
\* after the bucket's time-to-live.
NextBucket ==
    \/ \E key \in LimitKeys : CheckRateLimit(key, "token_bucket")
    \/ TickClock({6, 2 * WindowSeconds}, MaxBucketClock)

SpecBucket == InitLimit /\ [][NextBucket]_vars

\* The fixed-window limiter called by two workers at once.
NextFixedConc ==
    \/ \E w \in Workers, key \in LimitKeys : BeginCheckFixed(w, key)
    \/ \E w \in Workers : FinishCheckFixed(w)
    \/ TickClock({WindowSeconds}, MaxClock)

SpecFixedConc == InitLimit /\ [][NextFixedConc]_vars

---------------------------------------------------------------------------
(* Caching *)

CacheKeys == {"cache:report", "cache:quote"}

\* What the cached computations return.
ComputedValues ==
    {PyValue("dict", "{'n': 1}"), PyValue("tuple", "(1, 2)"), PyValue("int", "0"),
     PyValue("datetime", "2024-01-01 00:00:00"), PyNone}

CacheTtls == {None, Some(0), Some(60)}

\* cache.get_or_set(key, f, ttl), f returning `computed` if it is called
GetOrSet(key, computed, ttl) ==
    LET r == get_or_set(redis, key, computed, ttl, clock) IN
    /\ redis' = r.store
    /\ resp' = [op |-> "get_or_set", key |-> key, ttl |-> ttl, value |-> r.value,
                called |-> r.called, at |-> clock]
    /\ UNCHANGED <<users, reset_tokens, now, sess, issued, streak, accepted, redeemed,
                   clock, checks, vault, dialect, oauth>>

\* Cached computations under two keys, the clock being read every 30 seconds.
NextCache ==
    \/ \E key \in CacheKeys, computed \in ComputedValues, ttl \in CacheTtls :
           GetOrSet(key, computed, ttl)
    \/ TickClock({30}, MaxCacheClock)

SpecCache == InitLimit /\ [][NextCache]_vars

---------------------------------------------------------------------------
(* Encryption *)

Plaintexts == {"JBSWY3DPEHPK3PXP", ""}

\* SecurityManager(encryption_key)
NewManager(encryption_key) ==
    /\ Len(vault.managers) < MaxManagers
    /\ vault' = [vault EXCEPT !.managers =
                    Append(@, SecurityManager(encryption_key, Len(@) + 1))]
    /\ resp' = NoResp
    /\ UNCHANGED <<users, reset_tokens, now, sess, issued, streak, accepted, redeemed,
                   redis, clock, checks, dialect, oauth>>

\* manager.encrypt(data); the bookkeeping keeps, for the token, the key it was
\* made under and the plaintext.
Encrypt(m, data) ==
    LET token == manager_encrypt(vault.managers[m], data) IN
    /\ m \in 1..Len(vault.managers)
    /\ Cardinality(DOMAIN vault.tokens \cup {token}) <= MaxVaultTokens
    /\ vault' = [vault EXCEPT !.tokens =
                    (token :> [by |-> vault.managers[m], of |-> data, intact |-> TRUE]) @@ @]
    /\ resp' = [op |-> "encrypt", manager |-> m, data |-> data, out |-> Some(token)]
    /\ UNCHANGED <<users, reset_tokens, now, sess, issued, streak, accepted, redeemed,
                   redis, clock, checks, dialect, oauth>>

\* Somebody alters a stored token so that it reads as the ciphertext of `data`.
Alter(token, data) ==
    LET altered == [ciphertext_of |-> data, key |-> token.key, altered |-> TRUE] IN
    /\ token \in DOMAIN vault.tokens
    /\ vault.tokens[token].intact
    /\ Cardinality(DOMAIN vault.tokens \cup {altered}) <= MaxVaultTokens
    /\ vault' = [vault EXCEPT !.tokens =
                    (altered :> [vault.tokens[token] EXCEPT !.intact = FALSE]) @@ @]
    /\ resp' = NoResp
    /\ UNCHANGED <<users, reset_tokens, now, sess, issued, streak, accepted, redeemed,
                   redis, clock, checks, dialect, oauth>>

\* manager.decrypt(token)
Decrypt(m, token) ==
    /\ m \in 1..Len(vault.managers)
    /\ token \in DOMAIN vault.tokens
    /\ resp' = [op |-> "decrypt", manager |-> m, token |-> token,
                out |-> manager_decrypt(vault.managers[m], token)]
    /\ UNCHANGED <<users, reset_tokens, now, sess, issued, streak, accepted, redeemed, aux>>

NextCrypto ==
    \/ \E encryption_key \in EncryptionKeys : NewManager(encryption_key)
    \/ \E m \in 1..MaxManagers, data \in Plaintexts : Encrypt(m, data)
    \/ \E token \in DOMAIN vault.tokens, data \in Plaintexts : Alter(token, data)
    \/ \E m \in 1..MaxManagers, token \in DOMAIN vault.tokens : Decrypt(m, token)

SpecCrypto == InitLimit /\ [][NextCrypto]_vars

---------------------------------------------------------------------------
(* Properties.  The terms they are stated in: *)

\* The account an e-mail input names, if any.
AccountOf(email) ==
    IF \E id \in DOMAIN users : users[id].email = NormalizeEmail(email)
    THEN Some(CHOOSE id \in DOMAIN users : users[id].email = NormalizeEmail(email))
    ELSE None

\* The password is the one the account's hash was made from.
Matches(u, password) == u.password_hash = Some([hash_of |-> password.id])

\* The account's lock has not run out at time t.
LockedAt(u, t) == u.locked_until # None /\ t < Val(u.locked_until)

\* This step is a login call for account id with the given kind of password.
LoginStepFor(id, correct) ==
    /\ resp'.op = "login"
    /\ AccountOf(resp'.req.email) = Some(id)
    /\ Matches(users[id], Val(resp'.req.password)) = correct

LockedMessage == "Account is locked. Please try again in {} minutes."

\* The fifth wrong-password call in a row leaves the account locked for
\* LOCK_MINUTES from now.
FifthFailureLocks(id) ==
    (streak[id] = MAX_ATTEMPTS - 1 /\ streak'[id] = MAX_ATTEMPTS)
        => users'[id].locked_until = Some(now + LOCK_MINUTES)

\* A correct-password call made before locked_until is refused as locked,
\* returns no user and changes nothing.
LockedRefusesCorrect(id) ==
    (LoginStepFor(id, TRUE) /\ LockedAt(users[id], now))
        => /\ resp'.returned = [user |-> None, success |-> FALSE]
           /\ resp'.status = 401
           /\ resp'.message[1] = LockedMessage
           /\ resp'.tokens = None
           /\ users' = users

\* C1 as stated: for ANY account, after exactly 5 consecutive authenticate_user
\* calls with a wrong password (no successful login in between) the account is
\* locked with locked_until 15 minutes ahead, and every correct-password call
\* before locked_until fails as locked and returns no user.
C1_AnyAccountLocks ==
    [][\A id \in DOMAIN users : FifthFailureLocks(id) /\ LockedRefusesCorrect(id)]_vars

\* C1 amended: the same for any ACTIVE account (a deactivated account is
\* refused before its password is checked, so its failures are not counted).
C1_ActiveAccountLocks ==
    [][\A id \in DOMAIN users :
          /\ users[id].is_active => FifthFailureLocks(id)
          /\ LockedRefusesCorrect(id)]_vars

\* C1 witness: after five failures in a row the correct password is refused
\* as locked.
C1_Witness ==
    /\ streak["u1"] = MAX_ATTEMPTS
    /\ resp.op = "login"
    /\ Val(resp.req.password) = PwTest
    /\ resp.message[1] = LockedMessage
    /\ users["u1"].locked_until = Some(now + 1)

\* C2: authenticate_user returns (user, success) iff the account exists, is
\* not locked, is active and the password matches its hash (a password-less
\* account never matches); otherwise it returns (None, failure), decided in
\* the order not-found, locked, inactive, wrong-password, and the failed-login
\* counter moves up only in the wrong-password case.
AuthenticateOutcome(email, password) ==
    LET acc == AccountOf(email) IN
    IF acc = None
    THEN /\ resp'.returned = [user |-> None, success |-> FALSE]
         /\ resp'.message = <<"Invalid email or password">>
         /\ users' = users
    ELSE LET u == users[Val(acc)] IN
         IF LockedAt(u, now)
         THEN /\ resp'.returned = [user |-> None, success |-> FALSE]
              /\ resp'.message[1] = LockedMessage
              /\ users' = users
         ELSE IF ~u.is_active
         THEN /\ resp'.returned = [user |-> None, success |-> FALSE]
              /\ resp'.message = <<"Account is deactivated. Please contact support.">>
              /\ users' = users
         ELSE IF u.password_hash = None \/ ~Matches(u, password)
         THEN /\ resp'.returned = [user |-> None, success |-> FALSE]
              /\ resp'.message = <<"Invalid email or password">>
              /\ users'[u.id].failed_login_attempts =
                     (u.failed_login_attempts + 1) % MAX_ATTEMPTS
         ELSE /\ resp'.returned = [user |-> Some(u.id), success |-> TRUE]
              /\ users'[u.id].failed_login_attempts = 0

C2_AuthenticateDecision ==
    [][resp'.op = "login"
          => AuthenticateOutcome(resp'.req.email, Val(resp'.req.password))]_vars

\* C2 witness: an account that is locked and deactivated is refused as locked.
C2_Witness ==
    /\ resp.op = "login"
    /\ ~users["u1"].is_active
    /\ LockedAt(users["u1"], now)
    /\ resp.message[1] = LockedMessage

\* The code is a TOTP code of the account's seed for the current 30-second
\* step or one next to it.
TotpValidFor(u, code, t) ==
    /\ code.kind = "totp"
    /\ u.mfa_secret = Some([ciphertext_of |-> code.secret, key |-> SecurityKey])
    /\ code.step - TimeStep(t) \in {-1, 0, 1}

\* The hash of the code is among the account's stored backup-code hashes.
Stored(u, code) ==
    /\ u.backup_codes # None
    /\ \E i \in 1..Len(Val(u.backup_codes)) : Val(u.backup_codes)[i] = [sha256_of |-> code]

\* C3: when the account has MFA enabled, a login with the correct password
\* returns "MFA required" with the account id and no access or refresh token;
\* tokens for an MFA-enabled account come only from an MFA verification whose
\* code was valid.
MfaLoginGivesNoToken(id) ==
    (LoginStepFor(id, TRUE) /\ users[id].mfa_enabled)
        => /\ resp'.tokens = None
           /\ resp'.returned.success
                  => /\ resp'.status = 200
                     /\ resp'.mfa_required
                     /\ resp'.message = <<"MFA verification required">>
                     /\ resp'.user_id = Some(id)

TokensOnlyAfterMfa(id) ==
    (resp'.tokens # None /\ resp' # resp /\ Val(resp'.tokens).access_token.sub = id
            /\ users[id].mfa_enabled)
        => /\ resp'.op = "verify_mfa"
           /\ resp'.req.user_id = id
           /\ \/ TotpValidFor(users[id], Val(resp'.req.code), now)
              \/ Stored(users[id], Val(resp'.req.code))

C3_MfaRequiredBeforeTokens ==
    [][\A id \in DOMAIN users : MfaLoginGivesNoToken(id) /\ TokensOnlyAfterMfa(id)]_vars

\* C3 witness: the password login of an MFA account answered "MFA required".
C3_Witness ==
    /\ resp.op = "login"
    /\ resp.returned.success
    /\ resp.mfa_required
    /\ resp.user_id = Some("u1")
    /\ resp.tokens = None
    /\ users["u1"].mfa_enabled

\* C5: the failed-login counter is zero right after every successful login and
\* right after every lock transition (and for as long as the lock lasts), and
\* between operations it lies in 0..MAX_ATTEMPTS-1.
C5_CounterResets ==
    \A id \in DOMAIN users :
        /\ users[id].failed_login_attempts \in 0..(MAX_ATTEMPTS - 1)
        /\ LockedAt(users[id], now) => users[id].failed_login_attempts = 0
        /\ (resp.op = "login" /\ resp.returned = [user |-> Some(id), success |-> TRUE])
               => users[id].failed_login_attempts = 0

\* C5 witness: the state right after the lock transition.
C5_Witness ==
    /\ resp.op = "login"
    /\ streak["u1"] = MAX_ATTEMPTS
    /\ users["u1"].locked_until = Some(now + LOCK_MINUTES)
    /\ users["u1"].failed_login_attempts = 0

\* C6: each backup code is accepted at most once: a verification with a
\* stored backup code succeeds and removes its hash from the stored list, and
\* no code is ever accepted a second time.
FirstUseConsumes(id) ==
    (resp'.op = "verify_mfa" /\ resp'.req.user_id = id /\ users[id].mfa_enabled
            /\ Stored(users[id], Val(resp'.req.code)))
        => /\ resp'.status = 200
           /\ resp'.tokens # None
           /\ ~Stored(users'[id], Val(resp'.req.code))

AcceptedOnce ==
    \A x \in DOMAIN accepted : accepted[x] <= 1 /\ ~Stored(users[x[1]], x[2])

C6_BackupCodeOnce ==
    [][AcceptedOnce' /\ \A id \in DOMAIN users : FirstUseConsumes(id)]_vars

\* C6 witness: a backup code that was accepted before has just been refused.
C6_Witness ==
    /\ resp.op = "verify_mfa"
    /\ resp.status = 401
    /\ Val(resp.req.code).kind = "backup"
    /\ Count(accepted, <<"u1", Val(resp.req.code)>>) = 1
    /\ users["u1"].mfa_enabled

\* No login request is between its read of the account and its commit.
NoLoginInFlight == \A w \in Workers : ~Loaded(w, "login")

\* C4: failed-login accounting is atomic per account under concurrent logins:
\* once the logins have answered, the counter equals the number of
\* wrong-password calls made (none is lost), and the account is locked with
\* the counter at zero from the MAX_ATTEMPTS-th call on.
C4_NoLostFailure ==
    NoLoginInFlight =>
        \A id \in DOMAIN users :
            IF streak[id] < MAX_ATTEMPTS
            THEN /\ users[id].failed_login_attempts = streak[id]
                 /\ users[id].locked_until = None
            ELSE /\ LockedAt(users[id], now)
                 /\ users[id].failed_login_attempts = 0

\* C7: of concurrent verify_mfa_code calls with the same backup code for the
\* same account at most one is accepted.
C7_ConcurrentBackupCodeOnce ==
    \A x \in DOMAIN accepted : accepted[x] <= 1

\* A grant that can still be redeemed at time t.
ValidGrant(g, t) == ~g.used /\ t <= g.expires_at

GrantsOf(id) == {i \in 1..Len(reset_tokens) : reset_tokens[i].user_id = id}

\* C8: creating a reset grant marks every earlier unused grant of the account
\* as used: at any moment an account has at most one valid grant, and it is
\* the one created last.
C8_OneValidGrant ==
    \A id \in DOMAIN users :
        /\ Cardinality({i \in GrantsOf(id) : ValidGrant(reset_tokens[i], now)}) <= 1
        /\ \A i \in GrantsOf(id), j \in GrantsOf(id) : i < j => reset_tokens[i].used

\* C8 witness: a second grant was created while the first was still valid.
C8_Witness ==
    /\ Len(reset_tokens) >= 2
    /\ reset_tokens[1].user_id = reset_tokens[2].user_id
    /\ now <= reset_tokens[1].expires_at
    /\ reset_tokens[1].used
    /\ Count(redeemed, reset_tokens[1].token) = 0
    /\ ValidGrant(reset_tokens[2], now)

\* The token names no grant, or one that is used or past its expiry.
StaleToken(token) ==
    ~\E i \in 1..Len(reset_tokens) :
        reset_tokens[i].token = token /\ ValidGrant(reset_tokens[i], now)

\* The password meets the strength policy: 12 characters, an uppercase and
\* a lowercase letter, a digit and a special character.
MeetsPolicy(password) ==
    /\ password.len >= 12
    /\ password.upper /\ password.lower /\ password.digit /\ password.special

InvalidGrantMessage == <<"Invalid or expired reset token">>

HashesUnchanged == \A id \in DOMAIN users : users'[id].password_hash = users[id].password_hash

ConfirmStepWithStaleToken ==
    resp'.op = "confirm_password_reset" /\ StaleToken(resp'.req.token)

C10_GrantRedeemedOnce ==
    \A token \in DOMAIN redeemed : redeemed[token] <= 1

GenericResetAnswer ==
    <<"If an account exists with this email, a password reset link has been sent">>

\* What the caller of the reset request sees: status and body.
Visible(r) ==
    [status |-> r.status, message |-> r.message, mfa_required |-> r.mfa_required,
     user_id |-> r.user_id, tokens |-> r.tokens, backup_codes |-> r.backup_codes]

\* The step appended one unused grant for account id, expiring
\* RESET_TOKEN_MINUTES from now, and marked the account's earlier grants used,
\* leaving the grants of other accounts alone.
GrantCreatedFor(id) ==
    /\ Len(reset_tokens') = Len(reset_tokens) + 1
    /\ LET g == reset_tokens'[Len(reset_tokens')] IN
           /\ g.user_id = id
           /\ ~g.used
           /\ g.expires_at = now + RESET_TOKEN_MINUTES
           /\ \A i \in 1..Len(reset_tokens) : g.token # reset_tokens[i].token
    /\ \A i \in 1..Len(reset_tokens) :
           IF reset_tokens[i].user_id = id
           THEN reset_tokens'[i] = [reset_tokens[i] EXCEPT !.used = TRUE]
           ELSE reset_tokens'[i] = reset_tokens[i]

\* C11: a password-reset request is answered with the same generic success
\* response whether or not an account with that email exists; a grant is
\* created and earlier grants are invalidated only when the account exists.
C11_ResetRequestUniform ==
    [][resp'.op = "request_password_reset"
          => /\ Visible(resp') = [status |-> 200, message |-> GenericResetAnswer,
                                  mfa_required |-> FALSE, user_id |-> None,
                                  tokens |-> None, backup_codes |-> None]
             /\ users' = users
             /\ IF AccountOf(resp'.req.email) = None
                THEN reset_tokens' = reset_tokens
                ELSE GrantCreatedFor(Val(AccountOf(resp'.req.email)))]_vars

\* C11 witness: a request for an unknown email was answered while the grant
\* of an existing account stayed valid.
C11_Witness ==
    /\ resp.op = "request_password_reset"
    /\ AccountOf(resp.req.email) = None
    /\ Visible(resp).message = GenericResetAnswer
    /\ Len(reset_tokens) >= 1
    /\ ValidGrant(reset_tokens[Len(reset_tokens)], now)

FixedCheckStep == resp'.op = "check_rate_limit" /\ resp'.algorithm = "fixed_window"

\* C12: fixed window with limit 5 and window 60 s: for one key the first 5
\* checks inside a 60-second slice [now - now mod 60, +60) are allowed, the
\* 6th is denied, and a check in the next slice is allowed again, whatever
\* the timing of the earlier calls.
C12_FixedWindow ==
    [][FixedCheckStep
          => resp'.allowed =
                 (Count(checks, <<"made", FixedKey(resp'.key), Slice(clock)>>) < Limit)]_vars

\* C13: under any interleaving of concurrent fixed-window checks of one key,
\* the calls allowed during one lifetime of the counter never exceed
\* max_requests.
C13_AllowedWithinLimit ==
    \A key \in LimitKeys : Count(checks, <<"allowed", FixedKey(key)>>) <= Limit

BucketCheckStep == resp'.op = "check_rate_limit" /\ resp'.algorithm = "token_bucket"

\* Token counts in units of 1/WindowSeconds of a token.
Capacity == Limit * WindowSeconds
OneToken == WindowSeconds

\* The bucket a check finds: the stored one, or a full one as of now when
\* the key has no state.
BucketFound(redis_key) ==
    IF RedisLive(redis, redis_key, clock)
    THEN redis[redis_key].value
    ELSE [tokens |-> Capacity, last_refill |-> clock]

\* The found count plus elapsed * limit / window, capped at the capacity.
Refilled(redis_key) ==
    LET b == BucketFound(redis_key)
        sum == b.tokens + (clock - b.last_refill) * Limit
    IN  IF sum > Capacity THEN Capacity ELSE sum

\* C14: token bucket: each check refills the stored count by
\* elapsed*limit/window capped at the capacity; it is allowed iff the refilled
\* count is at least one token, and then exactly one token is consumed and the
\* state saved; a denied check writes nothing; the stored count stays within
\* [0, capacity]; a key with no state starts with a full bucket.
C14_TokenBucket ==
    [][BucketCheckStep
          => LET redis_key == BucketKey(resp'.key) IN
             /\ resp'.allowed = (Refilled(redis_key) >= OneToken)
             /\ IF resp'.allowed
                THEN /\ redis_key \in DOMAIN redis'
                     /\ redis'[redis_key].value =
                            [tokens |-> Refilled(redis_key) - OneToken, last_refill |-> clock]
                ELSE redis' = redis
             /\ \A k \in DOMAIN redis' :
                    redis'[k].value.tokens >= 0 /\ redis'[k].value.tokens <= Capacity]_vars

\* C14 witness: a check was denied after a refill that did not reach one token.
C14_Witness ==
    /\ resp.op = "check_rate_limit"
    /\ resp.algorithm = "token_bucket"
    /\ ~resp.allowed
    /\ RedisLive(redis, BucketKey(resp.key), clock)
    /\ clock > redis[BucketKey(resp.key)].value.last_refill
    /\ Refilled(BucketKey(resp.key)) < OneToken

ClaimsOf(u, kind) ==
    [type |-> kind, sub |-> u.id, role |-> u.role, email |-> u.email,
     mfa_enabled |-> u.mfa_enabled]

\* Tokens issued by login or MFA verification are an access and a refresh
\* token with the account's id, role, email and mfa_enabled.
IssueCarriesAccountState ==
    (resp'.op \in {"login", "verify_mfa"} /\ resp'.tokens # None)
        => \E id \in DOMAIN users :
               Val(resp'.tokens) = [access_token |-> ClaimsOf(users[id], "access"),
                                    refresh_token |-> ClaimsOf(users[id], "refresh")]

\* Refresh is Unauthorized for an account that is gone or inactive, and
\* otherwise mints an access token with the account's current values.
RefreshReadsAccount ==
    resp'.op = "refresh"
        => LET id == resp'.req.token.sub IN
           IF id \notin DOMAIN users \/ ~users[id].is_active
           THEN resp'.status = 401 /\ resp'.tokens = None
           ELSE /\ resp'.status = 200
                /\ resp'.tokens = Some([access_token |-> ClaimsOf(users[id], "access")])

\* C16: token claims are the account's state at minting time: issue returns
\* an access and a refresh token carrying id, role, email and mfa_enabled;
\* refresh fails with Unauthorized when the account no longer exists or is
\* inactive, and otherwise mints an access token with the account's current
\* role/email/mfa_enabled, not those of the refresh token.
C16_ClaimsFromAccount ==
    [][IssueCarriesAccountState /\ RefreshReadsAccount]_vars

\* C16 witness: a refresh token minted under another role was exchanged for
\* an access token with the current one.
C16_Witness ==
    /\ resp.op = "refresh"
    /\ resp.status = 200
    /\ resp.req.token.role # users[resp.req.token.sub].role
    /\ Val(resp.tokens).access_token.role = users[resp.req.token.sub].role

RegisterStep == resp'.op = "register"

\* The accounts whose stored email is the given one.
AccountsWith(table, email) == {id \in DOMAIN table : table[id].email = email}

\* C17: of two registrations whose emails are equal after normalization the
\* first succeeds and the second fails with the duplicate-email result,
\* leaving exactly one account for that email.
C17_DuplicateEmail ==
    [][(/\ RegisterStep
        /\ MatchesEmailPattern(NormalizeEmail(resp'.req.email))
        /\ MeetsPolicy(Val(resp'.req.password))
        /\ resp'.role \in Roles)
          => LET email == NormalizeEmail(resp'.req.email) IN
             /\ Cardinality(AccountsWith(users', email)) = 1
             /\ IF AccountsWith(users, email) = {}
                THEN resp'.status = 201
                ELSE /\ resp'.status = 400
                     /\ resp'.message = <<"User with this email already exists">>
                     /\ users' = users]_vars

\* C18: after a successful register_user the created account's stored email
\* is the trimmed, lower-cased input email and its role the requested role,
\* so that the account can be looked up by that email.
C18_StoredEmailAndRole ==
    [][(RegisterStep /\ resp'.status = 201)
          => \E id \in DOMAIN users' \ DOMAIN users :
                 /\ users'[id].email = NormalizeEmail(resp'.req.email)
                 /\ users'[id].role = resp'.role
                 /\ AccountsWith(users', NormalizeEmail(resp'.req.email)) = {id}]_vars

\* C19: register_user validates the email syntax before creating the
\* account: a call with an email that is not syntactically valid fails and
\* creates no account; every account registration creates has verified=false.
C19_EmailSyntaxChecked ==
    [][RegisterStep
          => /\ ~MatchesEmailPattern(NormalizeEmail(resp'.req.email))
                    => resp'.status = 400 /\ users' = users
             /\ \A id \in DOMAIN users' \ DOMAIN users : ~users'[id].is_verified]_vars

\* C20: register_user with a password that violates the strength policy, or
\* with a role outside CEO/CFO/Admin, creates no account and fails with the
\* specific validation message, not the generic internal-error message.
C20_ValidationMessage ==
    [][(RegisterStep /\ (~MeetsPolicy(Val(resp'.req.password)) \/ resp'.role \notin Roles))
          => /\ users' = users
             /\ resp'.status = 400
             /\ resp'.message # <<"An error occurred during registration">>
             /\ resp'.message[1] \in
                    {"Password must be at least {} characters long",
                     "Password must contain at least one uppercase letter",
                     "Password must contain at least one lowercase letter",
                     "Password must contain at least one digit",
                     "Password must contain at least one special character",
                     "Invalid role: {}. Must be one of {}"}]_vars

\* A step of the named handler.
StepOf(op) == resp'.op = op

\* The account can log in with the password now: active, not locked, and the
\* password is the one its hash was made from.
CanLogIn(u, password, t) ==
    /\ u.is_active
    /\ ~is_locked(u, t)
    /\ u.password_hash = Some(generate_password_hash(password))

\* C21: registering alice@example.com with password Str0ngPass!word succeeds;
\* a login with those credentials then returns access and refresh tokens;
\* enabling MFA with a fresh seed and a correct current TOTP code returns
\* exactly 10 backup codes; the next login with the correct password returns
\* "MFA required" and no tokens; the correct current TOTP code then returns
\* tokens.
C21_Journey ==
    [][/\ (StepOf("register") /\ users = <<>>)
            => /\ resp'.status = 201
               /\ DOMAIN users' # {}
       /\ (StepOf("login") /\ resp'.req.password = Some(PwStrong)
              /\ \E id \in DOMAIN users : CanLogIn(users[id], PwStrong, now))
            => /\ resp'.status = 200
               /\ \E id \in DOMAIN users :
                      IF users[id].mfa_enabled
                      THEN /\ resp'.mfa_required
                           /\ resp'.message = <<"MFA verification required">>
                           /\ resp'.tokens = None
                      ELSE /\ resp'.tokens # None
                           /\ Val(resp'.tokens).access_token.type = "access"
                           /\ Val(resp'.tokens).refresh_token.type = "refresh"
       /\ (StepOf("enable_mfa")
              /\ Val(resp'.req.code) = TotpCode("SEED-A", TimeStep(now)))
            => /\ resp'.status = 200
               /\ Len(Val(resp'.backup_codes)) = 10
       /\ (StepOf("verify_mfa")
              /\ resp'.req.user_id \in DOMAIN users
              /\ users[resp'.req.user_id].mfa_enabled
              /\ Val(resp'.req.code) = TotpCode("SEED-A", TimeStep(now)))
            => /\ resp'.status = 200
               /\ resp'.tokens # None]_vars

\* The code is a TOTP code of the seed for the step of time t or one next to it.
ValidTotp(seed, code, t) ==
    /\ code.kind = "totp"
    /\ code.secret = seed
    /\ code.step - TimeStep(t) \in {-1, 0, 1}

\* The stored value is a token of the process-wide cipher that decrypts to
\* the seed.
EncryptionOf(stored, seed) ==
    /\ stored # None
    /\ "ciphertext_of" \in DOMAIN Val(stored)
    /\ decrypt(Val(stored)) = Some(seed)

\* The stored hashes are those of the given codes, in number and in order.
HashesOf(stored, codes) ==
    /\ stored # None
    /\ Len(Val(stored)) = Len(codes)
    /\ \A i \in 1..Len(codes) : Val(stored)[i] = sha256(codes[i])

MfaStateUnchanged(before, after) ==
    /\ after.mfa_enabled = before.mfa_enabled
    /\ after.mfa_secret = before.mfa_secret
    /\ after.backup_codes = before.backup_codes

\* C22: enable_mfa succeeds iff the code is a valid TOTP code for the seed
\* within the tolerance window; on success the account has mfa_enabled, a
\* stored seed that is the encryption of the seed, and exactly ten stored
\* backup-code hashes matching the ten codes returned; on an invalid code it
\* returns the invalid-code failure and leaves mfa_enabled, the stored seed
\* and the backup codes unchanged.
C22_EnableMfa ==
    [][StepOf("enable_mfa")
          => LET id == resp'.req.user_id
                 seed == resp'.req.secret
                 code == Val(resp'.req.code)
             IN  IF ValidTotp(seed, code, now)
                 THEN /\ resp'.status = 200
                      /\ users'[id].mfa_enabled
                      /\ EncryptionOf(users'[id].mfa_secret, seed)
                      /\ Len(Val(resp'.backup_codes)) = 10
                      /\ HashesOf(users'[id].backup_codes, Val(resp'.backup_codes))
                 ELSE /\ resp'.status = 400
                      /\ resp'.message = <<"Invalid verification code">>
                      /\ MfaStateUnchanged(users[id], users'[id])]_vars

\* C22 witness: MFA was enabled with the second seed, and the account holds
\* its encryption and the hashes of the ten codes returned.
C22_Witness ==
    /\ resp.op = "enable_mfa"
    /\ resp.status = 200
    /\ resp.req.secret = "SEED-B"
    /\ users[resp.req.user_id].mfa_enabled
    /\ EncryptionOf(users[resp.req.user_id].mfa_secret, "SEED-B")
    /\ HashesOf(users[resp.req.user_id].backup_codes, Val(resp.backup_codes))

\* C23: a valid TOTP code generated for 30-second step T is accepted by
\* enable_mfa and verify_mfa_code when the verifier's current step is T-1, T
\* or T+1, and is rejected when the verifier's current step is any other.
C23_TotpWindow ==
    [][LET code == Val(resp'.req.code)
           T == code.step
           current == TimeStep(now)
       IN  /\ (StepOf("enable_mfa") /\ code.kind = "totp" /\ code.secret = resp'.req.secret)
                => (resp'.status = 200 <=> current \in {T - 1, T, T + 1})
           /\ (/\ StepOf("verify_mfa")
               /\ code.kind = "totp"
               /\ resp'.req.user_id \in DOMAIN users
               /\ users[resp'.req.user_id].mfa_enabled
               /\ EncryptionOf(users[resp'.req.user_id].mfa_secret, code.secret))
                => (resp'.status = 200 <=> current \in {T - 1, T, T + 1})]_vars

\* C23 witness: a code of the step after the verifier's was accepted by
\* verify_mfa_code.
C23_Witness ==
    /\ resp.op = "verify_mfa"
    /\ resp.status = 200
    /\ Val(resp.req.code).kind = "totp"
    /\ Val(resp.req.code).step = TimeStep(resp.at) + 1
    /\ now = resp.at

\* No MFA state at all on the account.
MfaCleared(u) ==
    /\ ~u.mfa_enabled
    /\ u.mfa_secret = None
    /\ u.backup_codes = None

\* C24: disable_mfa clears the MFA state entirely (mfa_enabled false, no
\* stored seed, no backup codes); afterwards verify_mfa_code returns false
\* for every code, including previously valid TOTP and backup codes, and a
\* correct-password login returns tokens directly.
C24_DisableClears ==
    [][/\ (StepOf("disable_mfa") /\ resp'.status = 200)
            => MfaCleared(users'[resp'.req.user_id])
       /\ (/\ StepOf("verify_mfa")
           /\ resp'.req.user_id \in DOMAIN users
           /\ MfaCleared(users[resp'.req.user_id]))
            => /\ resp'.status = 401
               /\ resp'.message = <<"Invalid MFA code">>
               /\ resp'.tokens = None
               /\ users' = users
       /\ (/\ StepOf("login")
           /\ AccountOf(resp'.req.email) # None
           /\ MfaCleared(users[Val(AccountOf(resp'.req.email))])
           /\ CanLogIn(users[Val(AccountOf(resp'.req.email))], Val(resp'.req.password), now))
            => /\ resp'.status = 200
               /\ ~resp'.mfa_required
               /\ resp'.tokens # None]_vars

\* C24 witness: after MFA was turned off, the current TOTP code of the seed
\* the account had was refused.
C24_Witness ==
    /\ resp.op = "verify_mfa"
    /\ resp.status = 401
    /\ Val(resp.req.code) = TotpCode("SEED-A", TimeStep(now))
    /\ resp.req.user_id = "u1"
    /\ MfaCleared(users["u1"])

\* The backup codes generated before the batch that is generated next.
IssuedCodes == {BackupCode(b, i) : b \in 1..issued, i \in 1..BACKUP_CODE_COUNT}

\* C25: regenerate_backup_codes fails without changing anything when MFA is
\* not enabled; when MFA is enabled it replaces the whole backup-code set in
\* one commit with ten new hashes, so that every previously issued backup
\* code is rejected afterwards and only the ten returned codes are accepted.
C25_RegenerateReplaces ==
    [][/\ StepOf("regenerate_backup_codes")
            => LET id == resp'.req.user_id IN
               IF ~users[id].mfa_enabled
               THEN /\ resp'.status = 400
                    /\ resp'.message = <<"MFA is not enabled">>
                    /\ users' = users
               ELSE /\ resp'.status = 200
                    /\ Len(Val(resp'.backup_codes)) = 10
                    /\ HashesOf(users'[id].backup_codes, Val(resp'.backup_codes))
                    /\ \A c \in IssuedCodes :
                           /\ ~InSeq(c, Val(resp'.backup_codes))
                           /\ ~InSeq(sha256(c), Val(users'[id].backup_codes))
                    /\ users' = [users EXCEPT ![id].backup_codes = users'[id].backup_codes]
       /\ (/\ StepOf("verify_mfa")
           /\ Val(resp'.req.code).kind = "backup"
           /\ resp'.status = 200)
            => /\ Val(resp'.req.code).batch = issued
               /\ InSeq(sha256(Val(resp'.req.code)),
                        Val(users[resp'.req.user_id].backup_codes))]_vars

\* C25 witness: the codes were regenerated, and a code of the first batch
\* that was never used is no longer among the stored hashes.
C25_Witness ==
    /\ resp.op = "regenerate_backup_codes"
    /\ resp.status = 200
    /\ issued = 2
    /\ HashesOf(users["u1"].backup_codes, Val(resp.backup_codes))
    /\ Count(accepted, <<"u1", BackupCode(1, 1)>>) = 0
    /\ ~InSeq(sha256(BackupCode(1, 1)), Val(users["u1"].backup_codes))

\* The provider returned a profile with an address and an id.
Identified(r) ==
    /\ r.identity # None
    /\ Val(r.identity).email # None
    /\ Val(r.identity).id # None

\* The account is linked to the identity, its password as in `before`.
LinkedTo(after, before, provider, identity) ==
    /\ after.oauth_provider = Some(provider)
    /\ after.oauth_id = identity.id
    /\ after.is_verified
    /\ after.password_hash = before.password_hash

\* A step that adds one account for the address, password-less, verified and
\* linked to the identity.
CreatedFor(email, provider, identity) ==
    \E id \in DOMAIN users' \ DOMAIN users :
        /\ users' = (id :> users'[id]) @@ users
        /\ users'[id].email = email
        /\ users'[id].password_hash = None
        /\ users'[id].is_verified
        /\ users'[id].oauth_provider = Some(provider)
        /\ users'[id].oauth_id = identity.id

\* C26 as stated: create_or_update_user_from_oauth(provider, identity): if
\* an account with the normalized email exists, the provider identity is
\* linked to it (provider and external id set, verified) and its password
\* hash is left unchanged; otherwise a new account is created with no
\* password hash, verified and with that provider linkage.
C26_LinkOrCreate ==
    [][(StepOf("oauth_callback") /\ Identified(resp'))
          => LET identity == Val(resp'.identity)
                 email == NormalizeEmail(Val(identity.email))
                 provider == resp'.req.provider
             IN  IF AccountsWith(users, email) # {}
                 THEN \A id \in AccountsWith(users, email) :
                          LinkedTo(users'[id], users[id], provider, identity)
                 ELSE CreatedFor(email, provider, identity)]_vars

\* C26, amended: an existing account that has no provider linkage yet is
\* linked to the identity (provider and external id set, verified), its
\* password hash unchanged; an existing account that already has a linkage
\* is left exactly as it is, whatever provider and id the identity has; in
\* both cases the caller is signed in to that account.  With no account for
\* the email, a new password-less, verified account with the linkage is
\* created.
C26_LinkFirstOrCreate ==
    [][(StepOf("oauth_callback") /\ Identified(resp'))
          => LET identity == Val(resp'.identity)
                 email == NormalizeEmail(Val(identity.email))
                 provider == resp'.req.provider
             IN  /\ resp'.status = 200
                 /\ IF AccountsWith(users, email) # {}
                    THEN \A id \in AccountsWith(users, email) :
                             /\ resp'.user_id = Some(id)
                             /\ IF users[id].oauth_provider = None
                                THEN /\ LinkedTo(users'[id], users[id], provider, identity)
                                     /\ users' = [users EXCEPT
                                            ![id].oauth_provider = Some(provider),
                                            ![id].oauth_id = identity.id,
                                            ![id].is_verified = TRUE]
                                ELSE users' = users
                    ELSE CreatedFor(email, provider, identity)]_vars

\* C26 witness: a Microsoft identity signed in to the password account, which
\* was linked to it and kept its password.
C26_Witness ==
    /\ resp.op = "oauth_callback"
    /\ resp.status = 200
    /\ resp.req.provider = "microsoft"
    /\ resp.user_id = Some("u1")
    /\ users["u1"].oauth_provider = Some("microsoft")
    /\ users["u1"].oauth_id = Val(resp.identity).id
    /\ users["u1"].password_hash = Some(generate_password_hash(PwTest))

\* The answer is an HTTP response with a status outside 200..299.
Non2xx(reply) == reply.status # 0 /\ (reply.status < 200 \/ reply.status > 299)

\* The handler answered with the exchange failure of the given kind and the
\* provider's raw body.
ExchangeErrorWith(kind, reply) ==
    /\ oauth.pc = "idle"
    /\ resp.op = "oauth_callback"
    /\ resp.status = 400
    /\ resp.message = <<kind, reply.body>>
    /\ resp.tokens = None

\* C27: an OAuth code exchange fails with an ExchangeError carrying the
\* provider's raw response body whenever the token request or the user-info
\* request returns a non-2xx status; the user-info request is sent only
\* after the token request succeeded with an access token, and a failed
\* request is never retried inside the broker.
C27_ExchangeError ==
    /\ (Len(oauth.got) >= 1 /\ Non2xx(oauth.got[1]))
         => /\ ExchangeErrorWith("Token exchange failed: {}", oauth.got[1])
            /\ Len(oauth.sent) = 1
    /\ (Len(oauth.got) = 2 /\ Non2xx(oauth.got[2]))
         => ExchangeErrorWith("User info fetch failed: {}", oauth.got[2])
    /\ \A i \in 1..Len(oauth.sent) :
           oauth.sent[i].method = "GET"
             => /\ i = 2
                /\ oauth.got[1].status = 200
                /\ oauth.got[1].access_token # None
                /\ oauth.sent[i].bearer = oauth.got[1].access_token
    /\ Len(oauth.sent) <= 2
    /\ \A i \in 1..Len(oauth.sent) : \A j \in 1..Len(oauth.sent) :
           oauth.sent[i].url = oauth.sent[j].url => i = j
    /\ Len(oauth.got) <= Len(oauth.sent)

\* C27 witness: the token request succeeded, the user-info request was
\* refused, and the handler answered with the provider's body.
C27_Witness ==
    /\ Len(oauth.got) = 2
    /\ oauth.got[2].status = 401
    /\ ExchangeErrorWith("User info fetch failed: {}", oauth.got[2])
    /\ Len(oauth.sent) = 2

\* The handler is inside requests.post or requests.get, waiting for the
\* provider: only an answer of the provider, or the timeout of the call if
\* it has one, lets it continue.
WaitingOnProvider == oauth.pc \in {"token_wait", "userinfo_wait"}

\* C28: every OAuth code exchange terminates: each external call to the
\* provider is bounded by a timeout, so that even when the provider never
\* responds the exchange eventually returns an ExchangeError instead of
\* blocking indefinitely.
C28_ExchangeBounded ==
    /\ \A i \in 1..Len(oauth.sent) : oauth.sent[i].timeout # None
    /\ WaitingOnProvider => oauth.sent[Len(oauth.sent)].timeout # None

\* C29 as stated: change_password rotates the password only after
\* re-verifying the current plaintext password: a call with a wrong current
\* password (or on an account without a password hash) fails and leaves the
\* password hash and password-changed timestamp unchanged; a call with the
\* correct current password and a policy-conforming new password makes the
\* new password, and no longer the old one, verify.
C29_ChangePassword ==
    [][StepOf("change_password")
          => LET id == resp'.req.user_id
                 current == Val(resp'.req.password)
                 new == resp'.req.new_password
             IN  /\ ~check_password(users[id], current)
                      => /\ resp'.status = 400
                         /\ users'[id].password_hash = users[id].password_hash
                         /\ users'[id].password_changed_at = users[id].password_changed_at
                 /\ (check_password(users[id], current) /\ MeetsPolicy(new))
                      => /\ resp'.status = 200
                         /\ check_password(users'[id], new)
                         /\ ~check_password(users'[id], current)]_vars

\* C29, amended: a call with a wrong current password (or on an account
\* without a password hash) fails and leaves the password hash and the
\* password-changed timestamp unchanged; a call with the correct current
\* password and a policy-conforming new password succeeds, stamps the
\* change and makes the new password verify, and the old password no longer
\* verifies unless the new password is the same as the old one.
C29_ChangePasswordUnlessSame ==
    [][StepOf("change_password")
          => LET id == resp'.req.user_id
                 current == Val(resp'.req.password)
                 new == resp'.req.new_password
             IN  /\ ~check_password(users[id], current)
                      => /\ resp'.status = 400
                         /\ users' = users
                 /\ (check_password(users[id], current) /\ MeetsPolicy(new))
                      => /\ resp'.status = 200
                         /\ check_password(users'[id], new)
                         /\ users'[id].password_changed_at = Some(now)
                         /\ new # current => ~check_password(users'[id], current)
                         /\ users' = [users EXCEPT
                                ![id].password_hash = users'[id].password_hash,
                                ![id].password_changed_at = Some(now)]]_vars

\* C29 witness: the password was changed at minute 1, the new one verifies
\* and the old one does not.
C29_Witness ==
    /\ resp.op = "change_password"
    /\ resp.status = 200
    /\ resp.at = 1
    /\ resp.req.new_password = PwNew
    /\ resp.req.password = Some(PwTest)
    /\ check_password(users["u1"], PwNew)
    /\ ~check_password(users["u1"], PwTest)
    /\ users["u1"].password_changed_at = Some(1)

\* The account is linked to an identity of a provider.
HasLinkage(u) == u.oauth_provider # None /\ u.oauth_id # None

\* C30: in every reachable state, every account created through
\* registration or OAuth login has a password hash or an OAuth provider
\* linkage (never neither), under any sequence of register, OAuth
\* link/create, password reset, password change and MFA operations.
C30_HashOrLinkage ==
    \A id \in DOMAIN users : users[id].password_hash # None \/ HasLinkage(users[id])

\* C30 witness: a registered account with a password and no linkage beside
\* an account an OAuth login created, which has a linkage and no password.
C30_Witness ==
    \E a \in DOMAIN users, b \in DOMAIN users :
        /\ users[a].password_hash # None
        /\ ~HasLinkage(users[a])
        /\ ~users[a].is_verified
        /\ users[b].password_hash = None
        /\ HasLinkage(users[b])

\* The account carries a lock whose time has passed.
LockRunOut(u, t) == u.locked_until # None /\ t >= Val(u.locked_until)

\* This step is a login that authenticate_user answered with success for id.
LoginSucceedsFor(id) ==
    resp'.op = "login" /\ resp'.returned = [user |-> Some(id), success |-> TRUE]

\* C31: is_locked is a function of the current time and locked_until and
\* changes no account field: a login refused as locked leaves the account as
\* it was, and a lock whose time has passed no longer refuses.  The passing
\* of the expiry is implicit (time alone changes no row), and locked_until
\* goes back to none only through record_successful_login: every step that
\* clears it is a successful login, and every successful login clears it.
C31_LockExpiryImplicit ==
    [][/\ now' # now => users' = users
       /\ \A id \in DOMAIN users :
              /\ (users[id].locked_until # None /\ users'[id].locked_until = None)
                     => LoginSucceedsFor(id)
              /\ LoginSucceedsFor(id) => users'[id].locked_until = None
              /\ (resp'.op = "login" /\ AccountOf(resp'.req.email) = Some(id))
                     => /\ (resp'.message[1] = LockedMessage) = is_locked(users[id], now)
                        /\ is_locked(users[id], now) = LockedAt(users[id], now)
                        /\ is_locked(users[id], now) => users' = users]_vars

\* C31 witness: the lock has run out, a wrong-password login was counted
\* since, and locked_until still holds the passed time.
C31_Witness ==
    /\ resp.op = "login"
    /\ resp.message = <<"Invalid email or password">>
    /\ LockRunOut(users["u1"], now)
    /\ users["u1"].failed_login_attempts = 1

\* The account the tokens of an answer are for.
TokenSubject(r) == Val(r.tokens).access_token.sub

\* C32: no token-issuing path (password login, MFA verification, OAuth
\* callback, token refresh) issues an access or refresh token for an account
\* that is locked (locked_until in the future) or inactive at that moment.
C32_NoTokenWhileLockedOrInactive ==
    [][(resp'.op \in {"login", "verify_mfa", "oauth_callback", "refresh"}
            /\ resp'.tokens # None
            /\ TokenSubject(resp') \in DOMAIN users)
          => /\ ~LockedAt(users[TokenSubject(resp')], now)
             /\ users[TokenSubject(resp')].is_active]_vars

\* A password check has succeeded for the account at some time: every
\* successful authenticate_user call stamps last_login, nothing else does.
PasswordChecked(u) == u.last_login # None

\* C33: for an account with MFA enabled, the MFA verification step issues
\* tokens only if a successful password check for that account came before
\* it in the login attempt: a caller who knows only the account id and a
\* valid MFA code, without the password, obtains no tokens.
C33_MfaAfterPassword ==
    [][\A id \in DOMAIN users :
          (resp'.op = "verify_mfa" /\ resp'.req.user_id = id /\ users[id].mfa_enabled
                /\ resp'.tokens # None)
              => PasswordChecked(users[id])]_vars

\* What the caller of a failed login sees: the returned (user, success) and
\* the body and status of the answer.
FailureSeen(r) == [returned |-> r.returned, body |-> Visible(r)]

\* The one answer for bad credentials.
BadCredentials ==
    [returned |-> [user |-> None, success |-> FALSE],
     body |-> [status |-> 401, message |-> <<"Invalid email or password">>,
               mfa_required |-> FALSE, user_id |-> None, tokens |-> None,
               backup_codes |-> None]]

\* The login input names no account, or an unlocked, active account whose
\* password it does not have.
UnknownOrWrongPassword(email, password) ==
    LET acc == AccountOf(email) IN
    \/ acc = None
    \/ /\ acc # None
       /\ ~LockedAt(users[Val(acc)], now)
       /\ users[Val(acc)].is_active
       /\ ~Matches(users[Val(acc)], password)

\* C34: authenticate_user returns the identical failure result and message
\* for an unknown email and for a known, unlocked, active account with a
\* wrong password, so the answer does not reveal whether the email exists or
\* which factor failed.
C34_UniformFailure ==
    [][(resp'.op = "login"
            /\ UnknownOrWrongPassword(resp'.req.email, Val(resp'.req.password)))
          => FailureSeen(resp') = BadCredentials]_vars

\* C34 witness: a login for an unknown address has just been refused, after
\* a wrong password for the known, unlocked account was refused.
C34_Witness ==
    /\ resp.op = "login"
    /\ AccountOf(resp.req.email) = None
    /\ FailureSeen(resp) = BadCredentials
    /\ streak["u1"] \in 1..(MAX_ATTEMPTS - 1)
    /\ users["u1"].is_active
    /\ users["u1"].password_hash # None

\* A check of the key at time t on the store as it is now (nothing having
\* touched the key since) would be allowed.
AllowedLater(key, t) == fixed_window(redis', key, Limit, WindowSeconds, t).allowed

\* C35: when a fixed-window check for a key is denied and returns
\* resetAt = r, then, with no other request for that key in between, a check
\* for the same key at any time >= r is allowed (here: at every second of
\* the window that starts at r).
C35_ResetAtSound ==
    [][(FixedCheckStep /\ ~resp'.allowed)
          => \A t \in resp'.reset_time..(resp'.reset_time + WindowSeconds) :
                 AllowedLater(resp'.key, t)]_vars

\* C36: a login attempt made while the account is locked changes nothing on
\* the account, whatever the password: the failed-login counter and
\* locked_until stay as they were, so attempts during the lock window
\* neither extend the lock nor count toward the next one.
C36_LockedLoginChangesNothing ==
    [][\A id \in DOMAIN users :
          (resp'.op = "login" /\ AccountOf(resp'.req.email) = Some(id)
                /\ LockedAt(users[id], now))
              => /\ users'[id] = users[id]
                 /\ resp'.tokens = None
                 /\ resp'.message[1] = LockedMessage]_vars

\* C36 witness: a wrong password tried in the last minute of the lock; the
\* lock still ends when it was set to end and the counter is at zero.
C36_Witness ==
    /\ resp.op = "login"
    /\ Val(resp.req.password) = PwWrong
    /\ resp.message[1] = LockedMessage
    /\ streak["u1"] > MAX_ATTEMPTS
    /\ users["u1"].locked_until = Some(now + 1)
    /\ users["u1"].failed_login_attempts = 0

\* The stored MFA material of an account: the encrypted seed and the
\* backup-code hashes.
MfaMaterial(u) == [mfa_secret |-> u.mfa_secret, backup_codes |-> u.backup_codes]

\* C37: once MFA is enabled for an account, its stored seed and backup-code
\* set change only through disable_mfa, regenerate_backup_codes or the
\* consumption of a backup code: an enable_mfa call on an account that
\* already has MFA enabled replaces neither the seed nor the backup codes.
C37_EnabledMfaKept ==
    [][\A id \in DOMAIN users :
          (users[id].mfa_enabled /\ MfaMaterial(users'[id]) # MfaMaterial(users[id]))
              => /\ resp'.op \in {"disable_mfa", "regenerate_backup_codes", "verify_mfa"}
                 /\ resp'.req.user_id = id]_vars

\* The valid grant a token names, if any.
ValidGrantFor(token) ==
    {i \in 1..Len(reset_tokens) :
         reset_tokens[i].token = token /\ ValidGrant(reset_tokens[i], now)}

\* C38: a reset_password call that fails because the new password violates
\* the strength policy does not consume the grant: the grant's used flag and
\* the account's password hash are unchanged, and a reset_password call with
\* the same unexpired token and a conforming password (later, or at once)
\* succeeds and sets that password.
C38_WeakPasswordKeepsGrant ==
    [][resp'.op = "confirm_password_reset"
          => /\ ~MeetsPolicy(Val(resp'.req.password))
                    => /\ resp'.status = 400
                       /\ reset_tokens' = reset_tokens
                       /\ users' = users
             /\ \A i \in ValidGrantFor(resp'.req.token) :
                    MeetsPolicy(Val(resp'.req.password))
                        => /\ resp'.status = 200
                           /\ reset_tokens'[i].used
                           /\ Matches(users'[reset_tokens[i].user_id],
                                      Val(resp'.req.password))]_vars

\* C38 witness: a valid grant was presented with a password the policy
\* refuses; the grant is still valid and would now be honoured with a
\* conforming password.
C38_Witness ==
    /\ resp.op = "confirm_password_reset"
    /\ resp.status = 400
    /\ ~MeetsPolicy(Val(resp.req.password))
    /\ \E i \in ValidGrantFor(resp.req.token) :
           /\ Count(redeemed, resp.req.token) = 0
           /\ reset_password(Some(reset_tokens[i]), users[reset_tokens[i].user_id],
                             PwNew, now).success

\* The bucket a check would find if stored state never expired: what was
\* written last for the key, however long ago, or a full one as of now when
\* nothing was ever written.
BucketKept(redis_key) ==
    IF redis_key \in DOMAIN redis
    THEN redis[redis_key].value
    ELSE [tokens |-> Capacity, last_refill |-> clock]

\* Its count after continuous refill up to now, capped at the capacity.
RefilledKept(redis_key) ==
    LET b == BucketKept(redis_key)
        sum == b.tokens + (clock - b.last_refill) * Limit
    IN  IF sum > Capacity THEN Capacity ELSE sum

\* C39: the expiry of a token bucket's stored state after twice the refill
\* period is indistinguishable from keeping the state forever: every check
\* of a sequence of checks on one key decides as the bucket without expiry
\* decides and leaves the count that bucket would leave (an expired bucket
\* restarts full exactly when continuous refill has already filled it).
C39_ExpiryUnobservable ==
    [][BucketCheckStep
          => LET redis_key == BucketKey(resp'.key) IN
             /\ resp'.allowed = (RefilledKept(redis_key) >= OneToken)
             /\ IF resp'.allowed
                THEN redis'[redis_key].value =
                         [tokens |-> RefilledKept(redis_key) - OneToken,
                          last_refill |-> clock]
                ELSE redis' = redis]_vars

\* C39 witness: a check found the state of earlier checks expired and
\* started from a full bucket.
C39_Witness ==
    /\ resp.op = "check_rate_limit"
    /\ resp.algorithm = "token_bucket"
    /\ resp.allowed
    /\ resp.remaining = Limit - 1
    /\ clock >= 2 * WindowSeconds
    /\ Count(checks, <<"made", BucketKey(resp.key), 0>>) >= Limit
    /\ Count(checks, <<"allowed", BucketKey(resp.key)>>) = 1

\* The key holds an unexpired value.
Holds(key) == RedisLive(redis, key, clock)

\* C40: get_or_set(key, f, ttl) computes only on a miss: if the key holds an
\* unexpired value it returns that value without calling f, otherwise it
\* calls f once, stores the result and returns it; hence of two successive
\* get_or_set calls on the same key within the TTL the second does not call
\* f when the first did, whatever value f returns.
C40_ComputeOnMissOnly ==
    [][resp'.op = "get_or_set"
          => LET key == resp'.key IN
             /\ IF Holds(key)
                THEN /\ ~resp'.called
                     /\ resp'.value = json_loads(redis[key].value)
                     /\ redis' = redis
                ELSE /\ resp'.called
                     /\ RedisLive(redis', key, clock)
                     /\ json_loads(redis'[key].value) = get(redis', key, PyNone, clock)
             /\ (resp.op = "get_or_set" /\ resp.key = key /\ resp.called)
                    => ~resp'.called]_vars

====
